---------------------------- MODULE Spec2Model ----------------------------
(***************************************************************************)
(* Model of cpp-blackmagic: the hook pipeline (HookState, HookPipeline)    *)
(* and the dependency-injection layer built on it (explicit-value          *)
(* registry, scoped overrides, inject contexts, the resolvers, Task and the *)
(* per-thread TaskScheduler).                                              *)
(*                                                                         *)
(* Spec         : threads registering decorators and installing the hook.  *)
(* SpecDispatch : calls dispatched through one HookPipeline.               *)
(* SpecRegistry : the explicit-value registry (InjectDependency, Find).    *)
(* SpecOverride : ScopedDependencyOverride guards over the registry.       *)
(* SpecInject   : injected calls resolving their Depends placeholders.     *)
(* SpecDefault  : chains of injected calls while nothing is registered.    *)
(* SpecPool     : top-level calls and the Tasks that keep their inject state*)
(* SpecExplicit : InjectDependency / RemoveDependency around injected calls.*)
(* SpecAsync    : the asynchronous resolver of targets returning Task<T>.  *)
(* SpecGet      : Target().Get() pumping the resolver coroutines; fair too*)
(* SpecSched    : coroutines scheduled by hand on the thread's scheduler.  *)
(* SpecAwait    : a coroutine awaiting Tasks on the thread's scheduler.     *)
(* SpecLease    : InjectContextLease objects activating inject contexts.   *)
(* SpecFail     : injected calls under the inject failure policies.        *)
(* SpecNest     : Dispatch re-entered from decorator callbacks.            *)
(* SpecPipelines: GetOrCreate calls on the pipeline registry.              *)
(* SpecThrow    : injected calls that return or are left by an exception.  *)
(* SpecSameKey  : injected functions with two parameters of one slot key.  *)
(* SpecCross    : threads dispatching on several pipelines.                *)
(* SpecResume   : Tasks of injected coroutines sharing one inject state.   *)
(***************************************************************************)
EXTENDS Integers, Sequences, FiniteSets, TLC

(***************************************************************************)
(* Bounds of the model.                                                    *)
(***************************************************************************)
NumThreads == 2
NumNodes == 2
\* objects the user hands to InjectDependency / ScopeOverrideDependency
NumValues == 2
\* entries the explicit-value registry holds at once
MaxEntries == 2
\* entries registered at once while injected calls run
MaxOverrides == 1
\* ScopedDependencyOverride objects
NumGuards == 2
\* nesting depth of injected calls
MaxDepth == 2
\* nesting depth of injected calls while nothing is registered
MaxChain == 3
\* Task objects alive at once
MaxTasks == 2
\* coroutine frames alive at once: the five resolver coroutines of one
\* placeholder, the factory's, and one more
MaxCoro == 7
\* entries of the scheduler queue the thread's code schedules by hand
MaxQueue == 2
\* objects the DI layer allocates that are alive at once
MaxHeap == 3
\* addresses at which an InjectContextLease can live
MaxLease == 4
\* parameters of an injected function called with caller-chosen arguments
MaxArgs == 2
\* Dispatch invocations of one pipeline nested on a thread
MaxNest == 3
\* calls into the pipeline made by user code while one outermost Dispatch runs
MaxCalls == 3
\* target addresses that hook classes ask a pipeline for
NumTargets == 2
\* pipeline objects ever allocated
MaxPipelines == 3

(***************************************************************************)
(* Program constants.                                                      *)
(***************************************************************************)
\* alignof(std::max_align_t) on the supported 64-bit targets
MaxAlign == 16
\* a null pointer (node, original trampoline, arena slice)
Null == 0
\* the trampoline CreateHook hands back
Trampoline == 1
\* R{} for R = int
DefaultReturn == 0
\* "result += 100" of the return-rewriting decorator
AfterDelta == 100

Thread == 1..NumThreads
Node == 1..NumNodes

HookFailPolicy == {"Ignore", "Throw", "Callback", "Terminate"}

VARIABLES
    \* ---- HookPipeline / HookState ----
    chain,          \* std::list<DecoratorEntry>: sequence of [node, offset, size]
    layoutDirty,    \* layout_dirty_
    arenaBytes,     \* arena_bytes_
    chainOwner,     \* holder of chain_mtx_ (0: free)
    installed,      \* HookState::installed_
    original,       \* HookState::original_
    mtx,            \* holder of HookState::mtx_ (0: free)
    targetPtr,      \* HookPipeline::target_ (Null or a code address)
    \* ---- backend (Hooker) ----
    backendHooks,   \* hooks created for the target and not removed
    enabled,        \* the detour is live: calls of the target reach Dispatch
    \* ---- process-wide hook error configuration ----
    policy,         \* HookFailPolicyStorage()
    callbackSet,    \* HookErrorCallbackStorage() != nullptr
    terminated,     \* std::terminate() was called
    \* ---- threads ----
    pc,             \* position of each thread
    via,            \* who called InstallAt: "register" or "direct"
    opNode,         \* node argument of RegisterDecorator
    instLocal,      \* InstallAt's local "original"
    lastError,      \* LastHookErrorStorage() (thread_local)
    event,          \* what the last step did that its caller or the backend observes
    disp,           \* the Dispatch frame that holds chain_mtx_
    regOrder        \* nodes in the order of their registration

pipeVars == <<chain, layoutDirty, arenaBytes, chainOwner, installed, original, mtx, targetPtr>>
backendVars == <<backendHooks, enabled>>
errVars == <<policy, callbackSet, terminated>>
threadVars == <<pc, via, opNode, instLocal, lastError, event, disp, regOrder>>
hookVars == <<pipeVars, backendVars, errVars, threadVars>>

VARIABLES
    \* ---- dependency injection ----
    table,          \* ExplicitValueRegistry::table_: set of [target, factory, type, value]
    lastWritten,    \* per key, what the latest InjectDependency / Remove call left
    guards,         \* the ScopedDependencyOverride objects
    baseline,       \* per key under guards, its entry before the first of them
    stack,          \* InjectContextState::context_stack above the root
    heap,           \* objects allocated by factories and default construction
    diEvent         \* what the last DI step did

diVars == <<table, lastWritten, guards, baseline, stack, heap, diEvent>>

VARIABLES
    \* ---- inject states and tasks ----
    tasks,          \* the Task objects returned by injected calls, with their lease
    pooled,         \* context_stack of the thread's reusable state: its Task leases
    chainState      \* the InjectContextState the running call chain is bound to

asyncVars == <<tasks, pooled, chainState>>

\* --- coroutines and the thread's TaskScheduler ---
VARIABLES
    coro,           \* the coroutine frames: function, progress, continuation, inject state
    queue,          \* TaskScheduler::queue_ of the thread
    get,            \* the Task::Get() call of the thread's synchronous code
    schedEvent      \* what the latest step of the scheduler did

schedVars == <<coro, queue, get, schedEvent>>

\* --- the leases of one InjectContextState ---
VARIABLES
    leases,          \* the InjectContextLease objects, by address
    contextStack,    \* InjectContextState::context_stack: root and lease frames
    injectCallDepth, \* InjectContextState::inject_call_depth
    acquired         \* the live leases in the order they were acquired in

leaseVars == <<leases, contextStack, injectCallDepth, acquired>>

\* --- the process-wide inject failure configuration ---
VARIABLES
    injectFailPolicy,    \* InjectFailPolicyStorage()
    injectErrorCallback, \* InjectErrorCallbackStorage() != nullptr
    callEvent            \* what the latest call of an injected function did

failVars == <<injectFailPolicy, injectErrorCallback, callEvent>>

\* --- re-entrant dispatch on one pipeline ---
VARIABLES
    nest,            \* the Dispatch invocations of the holder of chain_mtx_, outermost first
    lockDepth,       \* how many times the holder has locked chain_mtx_
    stackMem,        \* the stack bytes the arenas are carved from: who wrote them last
    nestEvent        \* what the latest step of a thread on the pipeline did

nestVars == <<nest, lockDepth, stackMem, nestEvent>>

\* --- the process-wide pipeline registry ---
VARIABLES
    pipelines,       \* HookPipelineRegistry::pipelines_: target -> pipeline, Null if absent
    registryMtx,     \* HookPipelineRegistry::mtx_: the thread that holds it, 0 if free
    getFrame,        \* each thread's GetOrCreate call: where it is, its target, its locals
    created,         \* every pipeline object ever allocated: [id, target]
    returned         \* every completed GetOrCreate call: [thread, target, pipeline]

pipelineVars == <<pipelines, registryMtx, getFrame, created, returned>>

\* --- injected calls of one thread and the ways they are left ---
VARIABLES
    activeSlot,      \* ActiveInjectStateVar of the thread: "unset" or a state
    callStack,       \* the injected calls in progress, outermost first
    exitEvent        \* how the latest injected call was left, and what it had found

exitVars == <<activeSlot, callStack, exitEvent>>

\* --- threads dispatching on several pipelines ---
VARIABLES
    chainLock,       \* chain_mtx_ of each pipeline: [owner, depth], owner 0 if free
    dispatching,     \* per thread, the pipelines of its Dispatch calls, outermost first
    waitsFor         \* per thread, the pipeline whose chain_mtx_ it is locking, or Null

crossVars == <<chainLock, dispatching, waitsFor>>

\* --- Tasks bound to the leases of one InjectContextState ---
VARIABLES
    bound,           \* per lease address, the Task holding the lease: status, continuation
    ready,           \* the scheduler's queue of the handles of these Tasks, oldest first
    resumeEvent      \* the latest call or resumption, and CurrentContext() at that moment

resumeVars == <<bound, ready, resumeEvent>>

runtimeVars == <<leaseVars, failVars, nestVars, pipelineVars, exitVars, crossVars, resumeVars>>

vars == <<hookVars, diVars, asyncVars, schedVars, runtimeVars>>

(***************************************************************************)
(* Sequence helpers.                                                       *)
(***************************************************************************)
RECURSIVE Reverse(_)
Reverse(s) == IF s = <<>> THEN <<>> ELSE Append(Reverse(Tail(s)), Head(s))

IsPrefix(s, t) == Len(s) <= Len(t) /\ SubSeq(t, 1, Len(s)) = s

RECURSIVE RemoveIf(_, _)
RemoveIf(s, n) ==
    IF s = <<>> THEN <<>>
    ELSE IF Head(s) = n THEN RemoveIf(Tail(s), n)
    ELSE <<Head(s)>> \o RemoveIf(Tail(s), n)

\* the element of a one-element set
TheOnly(S) == CHOOSE v \in S : TRUE

Last(s) == s[Len(s)]

(***************************************************************************)
(* HookState::InstallAt, one action per backend call and per store.        *)
(***************************************************************************)
NoFrame ==
    [thread |-> 0, stage |-> "none", it |-> 1, invoked |-> <<>>, pending |-> <<>>,
     proceed |-> TRUE, states |-> [val |-> 0, ref |-> 1], result |-> 0, reg0 |-> <<>>,
     orig0 |-> 0, origArgs |-> [val |-> 0, ref |-> 1], origRet |-> 0,
     seen |-> <<>>, left |-> <<>>, log |-> <<>>]

\* what the last step did that a caller or the backend can observe:
\*   calls    the backend calls it made, in order
\*   inst     what InstallAt handed back, if it ended in this step
\*   code     the HookErrorCode it reported
\*   callback whether the error callback ran
\*   late     whether that InstallAt began with installed_ already set
\*   reg      how RegisterDecorator was left, if it ended in this step
\*   node     that call's node, inChain: whether the chain still holds it
\*   failed   whether that call's InstallAt had failed
NoEvent ==
    [calls |-> <<>>, inst |-> "none", code |-> "None", callback |-> FALSE, late |-> FALSE,
     reg |-> "none", node |-> Null, inChain |-> FALSE, failed |-> FALSE]

InitHook ==
    /\ chain = <<>>
    /\ layoutDirty = FALSE
    /\ arenaBytes = 0
    /\ chainOwner = 0
    /\ installed = FALSE
    /\ original = Null
    /\ mtx = 0
    /\ targetPtr \in {Null, 1}
    /\ backendHooks = 0
    /\ enabled = FALSE
    /\ policy \in HookFailPolicy
    /\ callbackSet \in BOOLEAN
    /\ terminated = FALSE
    /\ pc = [t \in Thread |-> "idle"]
    /\ via = [t \in Thread |-> "none"]
    /\ opNode = [t \in Thread |-> Null]
    /\ instLocal = [t \in Thread |-> Null]
    /\ lastError = [t \in Thread |-> "None"]
    /\ event = NoEvent
    /\ disp = NoFrame
    /\ regOrder = <<>>

InChain(c, n) == \E i \in 1..Len(c) : c[i].node = n

\* the installed_ test at the head of InstallAt
AlwaysReinstall(flag) == FALSE
AlreadyInstalled(flag) == flag

\* a handler whose Callback policy ends the process as Terminate does
TerminatingCallbackOutcome(p) ==
    CASE p = "Throw" -> "throw"
      [] p \in {"Terminate", "Callback"} -> "terminate"
      [] OTHER -> "false"
\* what HandleHookFailure makes of the policy: the value InstallAt hands on
FailureOutcome(p) ==
    CASE p = "Throw" -> "throw"
      [] p = "Terminate" -> "terminate"
      [] OTHER -> "false"

\* InstallAt is left with the given outcome and RegisterDecorator goes on:
\* true is handed on, an exception passes through, false leads to the rollback
LeaveInstall(t, outcome, ev) ==
    /\ instLocal' = [instLocal EXCEPT ![t] = Null]
    /\ IF via[t] = "direct"
       THEN /\ pc' = [pc EXCEPT ![t] = IF outcome = "terminate" THEN "dead" ELSE "idle"]
            /\ via' = [via EXCEPT ![t] = "none"]
            /\ event' = [ev EXCEPT !.inst = outcome]
            /\ UNCHANGED opNode
       ELSE IF outcome \in {"true", "throw"}
       THEN /\ pc' = [pc EXCEPT ![t] = "idle"]
            /\ via' = [via EXCEPT ![t] = "none"]
            /\ opNode' = [opNode EXCEPT ![t] = Null]
            /\ event' = [ev EXCEPT !.inst = outcome, !.reg = outcome, !.node = opNode[t],
                                   !.failed = (outcome = "throw"),
                                   !.inChain = InChain(chain, opNode[t])]
       ELSE /\ pc' = [pc EXCEPT ![t] = IF outcome = "terminate" THEN "dead" ELSE "reg_unreg"]
            /\ event' = [ev EXCEPT !.inst = outcome]
            /\ UNCHANGED <<via, opNode>>

\* HandleHookFailure(error): last error, callback, then the policy
HandleHookFailure(t, code, ev) ==
    /\ lastError' = [lastError EXCEPT ![t] = code]
    /\ terminated' = (policy = "Terminate")
    /\ LeaveInstall(t, FailureOutcome(policy),
                    [ev EXCEPT !.code = code, !.callback = callbackSet])
    /\ UNCHANGED <<policy, callbackSet>>

\* lock mtx_; installed_ fast path; ClearLastHookError; argument check
InstallEnter(t) ==
    /\ ~terminated
    /\ pc[t] = "install"
    /\ mtx = 0
    /\ IF AlreadyInstalled(installed)
       THEN /\ LeaveInstall(t, "true", [NoEvent EXCEPT !.late = installed])
            /\ UNCHANGED <<mtx, lastError, errVars>>
       ELSE IF targetPtr = Null
       THEN /\ HandleHookFailure(t, "InvalidInstallArgument", [NoEvent EXCEPT !.late = installed])
            /\ UNCHANGED mtx
       ELSE /\ mtx' = t
            /\ lastError' = [lastError EXCEPT ![t] = "None"]
            /\ pc' = [pc EXCEPT ![t] = "inst_create"]
            /\ event' = [NoEvent EXCEPT !.late = installed]
            /\ UNCHANGED <<instLocal, via, opNode, errVars>>
    /\ UNCHANGED <<chain, layoutDirty, arenaBytes, chainOwner, installed, original, targetPtr>>
    /\ UNCHANGED <<backendVars, disp, regOrder>>
    /\ UNCHANGED <<diVars, asyncVars, schedVars, runtimeVars>>

\* hooker.CreateHook(target, detour, &original); ok is what the backend returns
InstallCreate(t, ok) ==
    /\ ~terminated
    /\ pc[t] = "inst_create"
    /\ IF ok
       THEN /\ backendHooks' = backendHooks + 1
            /\ instLocal' = [instLocal EXCEPT ![t] = Trampoline]
            /\ pc' = [pc EXCEPT ![t] = "inst_enable"]
            /\ event' = [NoEvent EXCEPT !.calls = <<"CreateHook">>]
            /\ UNCHANGED <<mtx, lastError, via, opNode, errVars>>
       ELSE /\ mtx' = 0
            /\ HandleHookFailure(t, "CreateHookFailed",
                                 [NoEvent EXCEPT !.calls = <<"CreateHook">>])
            /\ UNCHANGED backendHooks
    /\ UNCHANGED <<chain, layoutDirty, arenaBytes, chainOwner, installed, original, targetPtr>>
    /\ UNCHANGED <<enabled, disp, regOrder>>
    /\ UNCHANGED <<diVars, asyncVars, schedVars, runtimeVars>>

\* what the failure branch of EnableHook does to the backend hook
\* (h: hooks created for the target and not removed)
LeaveHookInPlace(h) == [hooks |-> h, calls |-> <<"EnableHook">>]
RemoveHookAfterEnableFailure(h) == [hooks |-> h - 1, calls |-> <<"EnableHook", "RemoveHook">>]

\* hooker.EnableHook(target), ok being what the backend returns; on failure
\* RemoveHook and EnableHookFailed
InstallEnable(t, ok) ==
    /\ ~terminated
    /\ pc[t] = "inst_enable"
    /\ IF ok
       THEN /\ enabled' = TRUE
            /\ pc' = [pc EXCEPT ![t] = "inst_store"]
            /\ event' = [NoEvent EXCEPT !.calls = <<"EnableHook">>]
            /\ UNCHANGED <<mtx, backendHooks, lastError, instLocal, via, opNode, errVars>>
       ELSE /\ backendHooks' = RemoveHookAfterEnableFailure(backendHooks).hooks
            /\ mtx' = 0
            /\ HandleHookFailure(t, "EnableHookFailed",
                   [NoEvent EXCEPT !.calls = RemoveHookAfterEnableFailure(backendHooks).calls])
            /\ UNCHANGED enabled
    /\ UNCHANGED <<chain, layoutDirty, arenaBytes, chainOwner, installed, original, targetPtr>>
    /\ UNCHANGED <<disp, regOrder>>
    /\ UNCHANGED <<diVars, asyncVars, schedVars, runtimeVars>>

\* original_.store(original)
InstallStoreOriginal(t) ==
    /\ ~terminated
    /\ pc[t] = "inst_store"
    /\ original' = instLocal[t]
    /\ pc' = [pc EXCEPT ![t] = "inst_flag"]
    /\ event' = NoEvent
    /\ UNCHANGED <<chain, layoutDirty, arenaBytes, chainOwner, installed, mtx, targetPtr>>
    /\ UNCHANGED <<backendVars, errVars>>
    /\ UNCHANGED <<via, opNode, instLocal, lastError, disp, regOrder>>
    /\ UNCHANGED <<diVars, asyncVars, schedVars, runtimeVars>>

\* installed_.store(true); return true (the lock guard releases mtx_)
InstallStoreInstalled(t) ==
    /\ ~terminated
    /\ pc[t] = "inst_flag"
    /\ installed' = TRUE
    /\ mtx' = 0
    /\ LeaveInstall(t, "true", NoEvent)
    /\ UNCHANGED <<chain, layoutDirty, arenaBytes, chainOwner, original, targetPtr>>
    /\ UNCHANGED <<backendVars, errVars>>
    /\ UNCHANGED <<lastError, disp, regOrder>>
    /\ UNCHANGED <<diVars, asyncVars, schedVars, runtimeVars>>

\* a caller invokes HookState::InstallAt itself
InstallAtDirect(t) ==
    /\ ~terminated
    /\ pc[t] = "idle"
    /\ pc' = [pc EXCEPT ![t] = "install"]
    /\ via' = [via EXCEPT ![t] = "direct"]
    /\ event' = NoEvent
    /\ UNCHANGED <<pipeVars, backendVars, errVars>>
    /\ UNCHANGED <<opNode, instLocal, lastError, disp, regOrder>>
    /\ UNCHANGED <<diVars, asyncVars, schedVars, runtimeVars>>

(***************************************************************************)
(* HookPipeline: RegisterDecorator, UnregisterDecorator.                   *)
(***************************************************************************)
NewEntry(n) == [node |-> n, offset |-> 0, size |-> 0]

\* chain_.push_back(entry) unless the node is already registered
PushFront(c, n) == IF InChain(c, n) THEN c ELSE <<NewEntry(n)>> \o c
PushBack(c, n) == IF InChain(c, n) THEN c ELSE Append(c, NewEntry(n))

RECURSIVE RemoveNode(_, _)
RemoveNode(c, n) ==
    IF c = <<>> THEN <<>>
    ELSE IF Head(c).node = n THEN RemoveNode(Tail(c), n)
    ELSE <<Head(c)>> \o RemoveNode(Tail(c), n)

\* RegisterDecorator up to the call of InstallAt
RegisterDecorator(t, n) ==
    /\ ~terminated
    /\ pc[t] = "idle"
    /\ IF n = Null
       THEN /\ event' = [NoEvent EXCEPT !.reg = "false"]
            /\ UNCHANGED <<chain, layoutDirty, regOrder, pc, via, opNode>>
       ELSE /\ chainOwner = 0
            /\ chain' = PushBack(chain, n)
            /\ layoutDirty' = (layoutDirty \/ ~InChain(chain, n))
            /\ regOrder' = IF InChain(chain, n) THEN regOrder ELSE Append(regOrder, n)
            /\ pc' = [pc EXCEPT ![t] = "install"]
            /\ via' = [via EXCEPT ![t] = "register"]
            /\ opNode' = [opNode EXCEPT ![t] = n]
            /\ event' = NoEvent
    /\ UNCHANGED <<arenaBytes, chainOwner, installed, original, mtx, targetPtr>>
    /\ UNCHANGED <<backendVars, errVars, instLocal, lastError, disp>>
    /\ UNCHANGED <<diVars, asyncVars, schedVars, runtimeVars>>

\* InstallAt returned false: UnregisterDecorator(node); return false
RegisterRollback(t) ==
    /\ ~terminated
    /\ pc[t] = "reg_unreg"
    /\ chainOwner = 0
    /\ chain' = RemoveNode(chain, opNode[t])
    /\ layoutDirty' = (layoutDirty \/ Len(chain') # Len(chain))
    /\ regOrder' = RemoveIf(regOrder, opNode[t])
    /\ event' = [NoEvent EXCEPT !.reg = "false", !.node = opNode[t], !.failed = TRUE,
                                !.inChain = InChain(chain', opNode[t])]
    /\ pc' = [pc EXCEPT ![t] = "idle"]
    /\ via' = [via EXCEPT ![t] = "none"]
    /\ opNode' = [opNode EXCEPT ![t] = Null]
    /\ UNCHANGED <<arenaBytes, chainOwner, installed, original, mtx, targetPtr>>
    /\ UNCHANGED <<backendVars, errVars, instLocal, lastError, disp>>
    /\ UNCHANGED <<diVars, asyncVars, schedVars, runtimeVars>>

UnregisterDecorator(t, n) ==
    /\ ~terminated
    /\ pc[t] = "idle"
    /\ IF n = Null
       THEN UNCHANGED <<chain, layoutDirty, regOrder>>
       ELSE /\ chainOwner = 0
            /\ chain' = RemoveNode(chain, n)
            /\ layoutDirty' = (layoutDirty \/ Len(chain') # Len(chain))
            /\ regOrder' = RemoveIf(regOrder, n)
    /\ event' = NoEvent
    /\ UNCHANGED <<arenaBytes, chainOwner, installed, original, mtx, targetPtr>>
    /\ UNCHANGED <<backendVars, errVars>>
    /\ UNCHANGED <<pc, via, opNode, instLocal, lastError, disp>>
    /\ UNCHANGED <<diVars, asyncVars, schedVars, runtimeVars>>

(***************************************************************************)
(* HookPipeline::Dispatch.  The target is int f(int a, int& b); the caller *)
(* passes a = 0 and b bound to object 1.  An ArgStorage tuple is           *)
(* [val, ref]: the copy of a and the address b's slot points to.           *)
(***************************************************************************)
\* ContextSize() of the nodes: node 1 keeps the default, the others ask for bytes
ContextSize(n) == IF n = 1 THEN 0 ELSE 8 * n

AlignUp(value, align) ==
    IF align <= 1 THEN value
    ELSE IF value % align = 0 THEN value ELSE value + (align - (value % align))

\* offsets and sizes RebuildLayoutIfNeeded assigns; off is the running offset
RECURSIVE LayoutFrom(_, _)
LayoutFrom(c, off) ==
    IF c = <<>> THEN <<>>
    ELSE LET sz == IF Head(c).node = Null THEN 0 ELSE ContextSize(Head(c).node)
             at == AlignUp(off, MaxAlign)
         IN IF sz = 0
            THEN <<[node |-> Head(c).node, offset |-> 0, size |-> 0]>> \o LayoutFrom(Tail(c), off)
            ELSE <<[node |-> Head(c).node, offset |-> at, size |-> sz]>>
                     \o LayoutFrom(Tail(c), at + sz)

RECURSIVE ArenaEnd(_, _)
ArenaEnd(c, off) ==
    IF c = <<>> THEN off
    ELSE LET sz == IF Head(c).node = Null THEN 0 ELSE ContextSize(Head(c).node)
         IN IF sz = 0 THEN ArenaEnd(Tail(c), off)
            ELSE ArenaEnd(Tail(c), AlignUp(off, MaxAlign) + sz)

\* the caller's arguments and InitArgStorage of them
CallArgs == [val |-> 0, ref |-> 1]
InitArgStorage(args) == [val |-> args.val, ref |-> args.ref]

\* the hooked function itself: never the default value
TargetFn(a) == 1 + a.val + 10 * a.ref

\* HookDefaultReturn<R>()
HookDefaultReturn == DefaultReturn

\* CallOriginal: Core::Original() == nullptr gives the default value
CallOriginal(orig, a) == IF orig = Null THEN HookDefaultReturn ELSE TargetFn(a)

\* the arguments CallOriginalFromStates forwards (ForwardCallArg of each state)
ForwardCallerArgs(states, args) == args
ForwardCallArg(states, args) == states

\* "R result = proceed ? CallOriginalFromStates(...) : HookDefaultReturn<R>()"
IgnoreVeto(proceed) == TRUE
CallsOriginal(proceed) == proceed

\* the order in which the after-phase visits the invoked nodes
ForwardOrder(inv) == inv
AfterOrder(inv) == Reverse(inv)

\* what a BeforeCallSlot may do to the slots: nothing, Assign, Rebind
BeforeEffect == {"none", "assign", "rebind"}
ApplyBefore(s, e) ==
    CASE e = "assign" -> [s EXCEPT !.val = 1]
      [] e = "rebind" -> [s EXCEPT !.ref = 2]
      [] OTHER -> s

\* what an AfterCallSlot may do to the result it gets by reference
AfterEffect == {"none", "rewrite"}
ApplyAfter(r, e) == IF e = "rewrite" THEN r + AfterDelta ELSE r

\* the CallContext slice of one chain entry
SliceOf(e, bytes) ==
    IF bytes = 0 \/ e.size = 0 THEN [mem |-> Null, size |-> e.size]
    ELSE [mem |-> 1 + e.offset, size |-> e.size]

Event(k, n) == [ev |-> k, node |-> n]

\* lock chain_mtx_; RebuildLayoutIfNeeded and the frame, unless the chain is empty
DispatchEnter(t) ==
    /\ ~terminated
    /\ pc[t] = "idle"
    /\ enabled
    /\ chainOwner = 0
    /\ chainOwner' = t
    /\ pc' = [pc EXCEPT ![t] = "dispatch"]
    /\ disp' = [NoFrame EXCEPT !.thread = t,
                               !.stage = IF chain = <<>> THEN "orig" ELSE "before",
                               !.states = InitArgStorage(CallArgs),
                               !.reg0 = regOrder]
    /\ IF chain = <<>>
       THEN UNCHANGED <<chain, layoutDirty, arenaBytes>>
       ELSE /\ chain' = IF layoutDirty THEN LayoutFrom(chain, 0) ELSE chain
            /\ arenaBytes' = IF layoutDirty THEN ArenaEnd(chain, 0) ELSE arenaBytes
            /\ layoutDirty' = FALSE
    /\ UNCHANGED <<installed, original, mtx, targetPtr, backendVars, errVars>>
    /\ event' = NoEvent
    /\ UNCHANGED <<via, opNode, instLocal, lastError, regOrder>>
    /\ UNCHANGED <<diVars, asyncVars, schedVars, runtimeVars>>

\* one turn of the before loop: emplace the node, BeforeCallSlot, break on false
DispatchBefore(t) ==
    /\ ~terminated
    /\ pc[t] = "dispatch"
    /\ disp.thread = t
    /\ disp.stage = "before"
    /\ LET f == disp
           e == chain[f.it]
       IN \E r \in BOOLEAN, eff \in BeforeEffect :
            disp' =
               [f EXCEPT !.invoked = Append(@, [node |-> e.node, ctx |-> SliceOf(e, arenaBytes)]),
                         !.states = ApplyBefore(@, eff),
                         !.log = Append(@, Event("B", e.node)),
                         !.proceed = r,
                         !.it = IF r THEN f.it + 1 ELSE f.it,
                         !.stage = IF r /\ f.it < Len(chain) THEN "before" ELSE "orig"]
    /\ UNCHANGED <<pipeVars, backendVars, errVars>>
    /\ event' = NoEvent
    /\ UNCHANGED <<pc, via, opNode, instLocal, lastError, regOrder>>
    /\ UNCHANGED <<diVars, asyncVars, schedVars, runtimeVars>>

\* the original call, or the default value after a veto
DispatchOriginal(t) ==
    /\ ~terminated
    /\ pc[t] = "dispatch"
    /\ disp.thread = t
    /\ disp.stage = "orig"
    /\ LET f == disp
           a == ForwardCallArg(f.states, CallArgs)
       IN disp' =
            IF CallsOriginal(f.proceed)
            THEN [f EXCEPT !.result = CallOriginal(original, a),
                           !.origRet = CallOriginal(original, a),
                           !.orig0 = original,
                           !.origArgs = a,
                           !.log = Append(@, Event(IF original = Null THEN "D" ELSE "O", Null)),
                           !.pending = AfterOrder(f.invoked),
                           !.stage = "after"]
            ELSE [f EXCEPT !.result = HookDefaultReturn,
                           !.pending = AfterOrder(f.invoked),
                           !.stage = "after"]
    /\ UNCHANGED <<pipeVars, backendVars, errVars>>
    /\ event' = NoEvent
    /\ UNCHANGED <<pc, via, opNode, instLocal, lastError, regOrder>>
    /\ UNCHANGED <<diVars, asyncVars, schedVars, runtimeVars>>

\* one turn of the after loop: AfterCallSlot(ctx, result) on the next node
DispatchAfter(t) ==
    /\ ~terminated
    /\ pc[t] = "dispatch"
    /\ disp.thread = t
    /\ disp.stage = "after"
    /\ disp.pending # <<>>
    /\ LET f == disp
       IN \E eff \in AfterEffect :
            disp' =
               [f EXCEPT !.seen = Append(@, f.result),
                         !.result = ApplyAfter(@, eff),
                         !.left = Append(@, ApplyAfter(f.result, eff)),
                         !.log = Append(@, Event("A", Head(f.pending).node)),
                         !.pending = Tail(@)]
    /\ UNCHANGED <<pipeVars, backendVars, errVars>>
    /\ event' = NoEvent
    /\ UNCHANGED <<pc, via, opNode, instLocal, lastError, regOrder>>
    /\ UNCHANGED <<diVars, asyncVars, schedVars, runtimeVars>>

\* return result; the lock guard releases chain_mtx_
DispatchReturn(t) ==
    /\ ~terminated
    /\ pc[t] = "dispatch"
    /\ disp.thread = t
    /\ disp.stage = "after"
    /\ disp.pending = <<>>
    /\ disp' = NoFrame
    /\ chainOwner' = 0
    /\ pc' = [pc EXCEPT ![t] = "idle"]
    /\ UNCHANGED <<chain, layoutDirty, arenaBytes, installed, original, mtx, targetPtr>>
    /\ UNCHANGED <<backendVars, errVars>>
    /\ event' = NoEvent
    /\ UNCHANGED <<via, opNode, instLocal, lastError, regOrder>>
    /\ UNCHANGED <<diVars, asyncVars, schedVars, runtimeVars>>

(***************************************************************************)
(* Dependency injection: the data.                                         *)
(***************************************************************************)
\* the injected functions of the test program and of the example
InjectTarget == {"test0", "test1", "print", "benchmark"}
\* target == nullptr: the global fallback key
GlobalTarget == "nullptr"
\* the injected functions returning Task<T>, of the benchmark and of the
\* http-server example
TaskTarget == {"benchmark_async_depends_plain", "benchmark_async_depends_factory_ref",
               "HandleHealth", "HandleAsyncHealth"}
\* the factories named by Depends(factory); nullptr stands for Depends()
Factory == {"get_config_owned", "get_config_borrowed"}
\* kFactoryProducesPointerV: the factories returning T* or Task<T*>
PointerFactory == {"get_config_owned", "HealthConfigFactory", "AsyncHealthConfigFactory"}
NoFactory == "nullptr"
\* the handle types InjectDependency accepts for the dependency type Config
HandleType == {"reference_wrapper", "pointer"}

\* objects: the user's, the static instance of get_config_borrowed, the heap
Value == 1..NumValues
StaticObj == NumValues + 1
HeapId == (NumValues + 2)..(NumValues + 1 + MaxHeap)
Guard == 1..NumGuards

ExplicitValueKey(target, factory, type) ==
    [target |-> target, factory |-> factory, type |-> type]

Key == [target : InjectTarget \cup {GlobalTarget},
        factory : Factory \cup {NoFactory},
        type : HandleType]

\* std::optional
NullOpt == [has |-> FALSE, value |-> Null]
Some(v) == [has |-> TRUE, value |-> v]

\* a guard that is not constructed, or was moved from (active_ == false)
NoGuard ==
    [state |-> "none", key |-> ExplicitValueKey(GlobalTarget, NoFactory, "pointer"),
     value |-> Null, hadPrevious |-> FALSE, previous |-> Null]

NoDiEvent ==
    [op |-> "none", target |-> GlobalTarget, factory |-> NoFactory,
     type |-> "pointer", index |-> 0, depth |-> 0, cached |-> FALSE,
     result |-> NullOpt, invoked |-> FALSE, made |-> Null, destroyed |-> {},
     last |-> FALSE, expected |-> NullOpt]

TaskId == 1..MaxTasks
NoTask == [alive |-> FALSE, state |-> "none",
           frame |-> [target |-> "nullptr", next |-> 1, slots |-> {}]]

\* coroutine frames, and the inject states a frame or a queue entry names:
\* none, the ambient state of the thread, the state of an injected call
CoroId == 1..MaxCoro
NoCoro == [fn |-> "none", factory |-> NoFactory, status |-> "none", at |-> 1,
           continuation |-> 0, continuationState |-> "null", state |-> "null",
           child |-> 0, owner |-> "none", task |-> 0,
           suspendedUnder |-> "null", scheduledUnder |-> "null"]
NoGet == [task |-> 0, phase |-> "idle"]
NoSchedEvent == [op |-> "none", handle |-> 0, rank |-> 0, done |-> FALSE,
                 resumes |-> <<>>, before |-> "unset", after |-> "unset"]

\* the addresses of InjectContext frames: the root of the state, and the
\* local_ member of a lease at each lease address
LeaseAddr == 1..MaxLease
RootContext == MaxLease + 1
NoLease == [status |-> "none", track |-> FALSE, parent |-> Null]

\* InjectContextState::InjectContextState: the stack holds the root
InitLease ==
    /\ leases = [a \in LeaseAddr |-> NoLease]
    /\ contextStack = <<RootContext>>
    /\ injectCallDepth = 0
    /\ acquired = <<>>

\* the values of enum class InjectFailPolicy
InjectFailPolicy == {"Terminate", "Throw", "Callback"}
NoCallEvent ==
    [op |-> "none", isTask |-> FALSE, args |-> <<>>, policy |-> "Terminate",
     callbackSet |-> FALSE, callbacks |-> 0, outcome |-> "none", code |-> "none",
     index |-> 0, resolved |-> {}, originalInvoked |-> FALSE, passed |-> <<>>]

\* the storages' static initialisers: Terminate, and no callback
InitFail ==
    /\ injectFailPolicy = "Terminate"
    /\ injectErrorCallback = FALSE
    /\ callEvent = NoCallEvent

\* the decorators of the re-entrant dispatches: those of the chain and one
\* that a callback brings in
NestNode == 1..(NumNodes + 1)
\* the stack grows down from StackTop; addresses are counted in units of 8
StackTop == MaxNest * MaxAlign * (NumNodes + 1) * 2
Addr == {8 * k : k \in 1..(StackTop \div 8)}
NoNestEvent == [op |-> "none", thread |-> 0, node |-> Null, depth |-> 0, mem0 |-> <<>>]

\* no Dispatch is running and chain_mtx_ is free
InitNest ==
    /\ nest = <<>>
    /\ lockDepth = 0
    /\ stackMem = [a \in Addr |-> 0]
    /\ nestEvent = NoNestEvent

\* the target addresses of the hook classes
HookTarget == 1..NumTargets
\* the addresses operator new hands out for pipelines
PipelineId == 1..(MaxPipelines + NumThreads)
NoGetFrame == [pc |-> "idle", target |-> Null, obj |-> Null]

\* the registry is empty, its mutex free, nobody is inside GetOrCreate
InitPipelines ==
    /\ pipelines = [a \in HookTarget |-> Null]
    /\ registryMtx = 0
    /\ getFrame = [t \in Thread |-> NoGetFrame]
    /\ created = {}
    /\ returned = {}

NoExitEvent == [op |-> "none", addr |-> Null, top |-> FALSE, slot |-> "unset",
                stack |-> <<>>, depth |-> 0]

\* the thread is in no injected call and ActiveInjectStateVar is unset
InitExit ==
    /\ activeSlot = "unset"
    /\ callStack = <<>>
    /\ exitEvent = NoExitEvent

\* every chain_mtx_ is free and no thread is inside a Dispatch
InitCross ==
    /\ chainLock = [p \in HookTarget |-> [owner |-> 0, depth |-> 0]]
    /\ dispatching = [t \in Thread |-> <<>>]
    /\ waitsFor = [t \in Thread |-> Null]

NoBound == [status |-> "none", continuation |-> Null]
NoResumeEvent == [op |-> "none", task |-> Null, current |-> Null]

\* no lease is held by a Task and the queue is empty
InitResume ==
    /\ bound = [a \in LeaseAddr |-> NoBound]
    /\ ready = <<>>
    /\ resumeEvent = NoResumeEvent

\* no Task exists; the thread_local reusable state has its root only
InitAsync ==
    /\ InitResume
    /\ InitCross
    /\ InitExit
    /\ InitLease
    /\ InitFail
    /\ InitNest
    /\ InitPipelines
    /\ tasks = [t \in TaskId |-> NoTask]
    /\ pooled = <<>>
    /\ chainState = "none"
    /\ coro = [c \in CoroId |-> NoCoro]
    /\ queue = <<>>
    /\ get = NoGet
    /\ schedEvent = NoSchedEvent

InitDI ==
    /\ table = {}
    /\ lastWritten = {}
    /\ guards = [g \in Guard |-> NoGuard]
    /\ baseline = {}
    /\ stack = <<>>
    /\ heap = {}
    /\ diEvent = NoDiEvent

(***************************************************************************)
(* The hook specification.                                                 *)
(***************************************************************************)
Init == InitHook /\ InitDI /\ InitAsync

\* installing the hook: registration, InstallAt, every policy
Next ==
    \/ \E t \in Thread : InstallAtDirect(t)
    \/ \E t \in Thread : InstallEnter(t)
    \/ \E t \in Thread, ok \in BOOLEAN : InstallCreate(t, ok)
    \/ \E t \in Thread, ok \in BOOLEAN : InstallEnable(t, ok)
    \/ \E t \in Thread : InstallStoreOriginal(t)
    \/ \E t \in Thread : InstallStoreInstalled(t)
    \/ \E t \in Thread, n \in Node \cup {Null} : RegisterDecorator(t, n)
    \/ \E t \in Thread : RegisterRollback(t)
    \/ \E t \in Thread, n \in Node \cup {Null} : UnregisterDecorator(t, n)

Spec == Init /\ [][Next]_vars

\* calls through the detour while nodes come and go and the hook is being
\* installed by a backend that succeeds; the failure policy, which Dispatch
\* never reads, stays at its default (Ignore, no callback)
InitDispatch ==
    /\ InitHook
    /\ InitDI
    /\ InitAsync
    /\ policy = "Ignore"
    /\ ~callbackSet
    /\ targetPtr # Null

NextDispatch ==
    \/ \E t \in Thread : InstallEnter(t)
    \/ \E t \in Thread : InstallCreate(t, TRUE)
    \/ \E t \in Thread : InstallEnable(t, TRUE)
    \/ \E t \in Thread : InstallStoreOriginal(t)
    \/ \E t \in Thread : InstallStoreInstalled(t)
    \/ \E t \in Thread, n \in Node : RegisterDecorator(t, n)
    \/ \E t \in Thread, n \in Node : UnregisterDecorator(t, n)
    \/ \E t \in Thread : DispatchEnter(t)
    \/ \E t \in Thread : DispatchBefore(t)
    \/ \E t \in Thread : DispatchOriginal(t)
    \/ \E t \in Thread : DispatchAfter(t)
    \/ \E t \in Thread : DispatchReturn(t)

SpecDispatch == InitDispatch /\ [][NextDispatch]_vars

(***************************************************************************)
(* Properties of the hook pipeline.                                        *)
(***************************************************************************)
\* a frame whose after loop has ended: its result is what Dispatch returns
Completed(f) == f.stage = "after" /\ f.pending = <<>>

\* the nodes of the events of kind k, in the order of the log
RECURSIVE NodesOf(_, _)
NodesOf(log, k) ==
    IF log = <<>> THEN <<>>
    ELSE IF Head(log).ev = k THEN <<Head(log).node>> \o NodesOf(Tail(log), k)
    ELSE NodesOf(Tail(log), k)

EventsOf(k, nodes) == [i \in 1..Len(nodes) |-> Event(k, nodes[i])]

\* every AfterCallSlot got the result its predecessor left, the first one got v0,
\* and the frame's result is what the last one left
AfterPhaseFrom(f, v0) ==
    /\ Len(f.seen) = Len(NodesOf(f.log, "A"))
    /\ Len(f.left) = Len(f.seen)
    /\ \A i \in 1..Len(f.seen) : f.seen[i] = IF i = 1 THEN v0 ELSE f.left[i - 1]
    /\ f.result = IF f.left = <<>> THEN v0 ELSE Last(f.left)

\* C1: in every Dispatch, BeforeCallSlot runs on the nodes in registration order
\* (all of them unless one vetoes), every BeforeCallSlot precedes every
\* AfterCallSlot, and by the end AfterCallSlot has run exactly once on each node
\* whose BeforeCallSlot ran, in the reverse order, and on no other node.
C1_BeforeInOrderAfterInReverse ==
    LET f == disp
        b == NodesOf(f.log, "B")
        a == NodesOf(f.log, "A")
    IN  f.stage # "none" =>
          /\ IsPrefix(b, f.reg0)
          /\ IsPrefix(a, Reverse(b))
          /\ (f.stage \in {"before", "orig"} => a = <<>>)
          /\ (f.stage = "after" => Len(a) + Len(f.pending) = Len(b))
          /\ (Completed(f) => a = Reverse(b))
          /\ (Completed(f) /\ f.proceed => b = f.reg0)
          /\ \A i, j \in 1..Len(f.log) :
                (f.log[i].ev = "B" /\ f.log[j].ev = "A") => i < j

C1_Witness ==
    /\ Completed(disp)
    /\ Len(NodesOf(disp.log, "B")) >= 2
    /\ Len(NodesOf(disp.log, "A")) >= 2

\* C2 as stated: after a veto by the k-th node the original is not called, nodes
\* k..1 get AfterCallSlot in that order, the later nodes get no call, and
\* Dispatch returns the default value of the return type.
C2_VetoReturnsDefault ==
    LET f == disp
        b == NodesOf(f.log, "B")
        a == NodesOf(f.log, "A")
    IN  (Completed(f) /\ ~f.proceed) =>
          /\ f.log = EventsOf("B", b) \o EventsOf("A", a)
          /\ b = SubSeq(f.reg0, 1, Len(b))
          /\ a = Reverse(b)
          /\ f.result = HookDefaultReturn

\* C2 (amended): after a veto by the k-th node the original is not called, nodes
\* k..1 get AfterCallSlot in that order, the later nodes get no call; the first
\* AfterCallSlot receives the default value of the return type by reference and
\* Dispatch returns it as the AfterCallSlot calls of nodes k..1 left it.
C2_VetoReturnsDefaultAsLeftByAfters ==
    LET f == disp
        b == NodesOf(f.log, "B")
        a == NodesOf(f.log, "A")
    IN  (Completed(f) /\ ~f.proceed) =>
          /\ f.log = EventsOf("B", b) \o EventsOf("A", a)
          /\ b = SubSeq(f.reg0, 1, Len(b))
          /\ a = Reverse(b)
          /\ AfterPhaseFrom(f, HookDefaultReturn)

C2_Witness ==
    /\ Completed(disp)
    /\ ~disp.proceed
    /\ Len(NodesOf(disp.log, "B")) = 2
    /\ Len(disp.reg0) >= 2
    /\ disp.result # HookDefaultReturn

C4_InstallOnce ==
    /\ backendHooks <= 1
    /\ installed => (event.calls = <<>> /\ event.inst \in {"none", "true"})

C4_Witness ==
    /\ installed
    /\ event.late
    /\ event.inst = "true"

\* C5 as stated: when the install made by RegisterDecorator(node) has failed,
\* the node is out of the chain once control leaves RegisterDecorator, and a
\* normal return hands back false.
C5_FailedRegisterRemovesNode ==
    (event.reg # "none" /\ event.failed) =>
        /\ ~event.inChain
        /\ (event.reg # "throw" => event.reg = "false")

\* C6: when EnableHook fails after CreateHook succeeded, the step that reports
\* EnableHookFailed has called RemoveHook after EnableHook, no backend hook is
\* left, installed_ is false and original_ is null.
C6_EnableFailureRemovesHook ==
    event.code = "EnableHookFailed" =>
        /\ event.calls = <<"EnableHook", "RemoveHook">>
        /\ backendHooks = 0
        /\ ~installed
        /\ original = Null

C6_Witness ==
    /\ event.code = "EnableHookFailed"
    /\ event.inst \in {"false", "throw"}
    /\ lastError[1] = "EnableHookFailed"

(***************************************************************************)
(* ExplicitValueRegistry: one table from (target, factory, type) to a      *)
(* borrowed handle; every method runs under the registry's mutex.          *)
(***************************************************************************)
KeyOf(e) == ExplicitValueKey(e.target, e.factory, e.type)
Entry(k, v) == [target |-> k.target, factory |-> k.factory, type |-> k.type, value |-> v]

\* fetch_at / table_.find(key)
FetchAt(tbl, k) ==
    IF \E e \in tbl : KeyOf(e) = k
    THEN Some((CHOOSE e \in tbl : KeyOf(e) = k).value)
    ELSE NullOpt

\* Register: table_[key] = stored
RegisterIfAbsent(tbl, k, v) == IF FetchAt(tbl, k).has THEN tbl ELSE tbl \cup {Entry(k, v)}
Register(tbl, k, v) == {e \in tbl : KeyOf(e) # k} \cup {Entry(k, v)}

\* an erase that leaves the entry in place
RemoveNothing(tbl, k) == tbl

\* Remove: table_.erase(key)
Remove(tbl, k) == {e \in tbl : KeyOf(e) # k}

\* FindExact: the entry of exactly this key
FindExact(tbl, k) == FetchAt(tbl, k)

\* Find: (target, factory, type), then (nullptr, factory, type) when the
\* target is not nullptr; never an entry of another factory key
FindWithPlainFallback(tbl, target, factory, type) ==
    LET hit == FetchAt(tbl, ExplicitValueKey(target, factory, type))
        glob == FetchAt(tbl, ExplicitValueKey(GlobalTarget, factory, type))
    IN  IF hit.has THEN hit
        ELSE IF glob.has THEN glob
        ELSE FetchAt(tbl, ExplicitValueKey(target, NoFactory, type))
Find(tbl, target, factory, type) ==
    LET hit == FetchAt(tbl, ExplicitValueKey(target, factory, type))
    IN  IF hit.has THEN hit
        ELSE IF target # GlobalTarget
        THEN FetchAt(tbl, ExplicitValueKey(GlobalTarget, factory, type))
        ELSE NullOpt

\* InjectDependencyAt(target, factory, value): RegisterExplicitValue<U>;
\* room caps the number of entries the table holds
InjectDependencyAt(k, v, room) ==
    /\ FetchAt(table, k).has \/ Cardinality(table) < room
    /\ table' = Register(table, k, v)
    /\ lastWritten' = {e \in lastWritten : KeyOf(e) # k} \cup {Entry(k, v)}
    /\ diEvent' = NoDiEvent
    /\ UNCHANGED <<guards, baseline, stack, heap>>
    /\ UNCHANGED <<hookVars, asyncVars, schedVars, runtimeVars>>

\* RemoveDependencyAt(target, factory, type): RemoveExplicitValue
\* (erasing a key that has no entry changes nothing)
RemoveDependencyAt(k) ==
    /\ FetchAt(table, k).has
    /\ table' = Remove(table, k)
    /\ lastWritten' = {e \in lastWritten : KeyOf(e) # k}
    /\ diEvent' = NoDiEvent
    /\ UNCHANGED <<guards, baseline, stack, heap>>
    /\ UNCHANGED <<hookVars, asyncVars, schedVars, runtimeVars>>

\* ClearDependencies(): ClearExplicitValues
ClearDependencies ==
    /\ table # {}
    /\ table' = {}
    /\ lastWritten' = {}
    /\ diEvent' = NoDiEvent
    /\ UNCHANGED <<guards, baseline, stack, heap>>
    /\ UNCHANGED <<hookVars, asyncVars, schedVars, runtimeVars>>

\* FindExplicitValue(target, factory, typeid(U)): one lookup by a resolver
FindExplicitValue(target, factory, type) ==
    /\ diEvent' = [NoDiEvent EXCEPT !.op = "find", !.target = target,
                                    !.factory = factory, !.type = type,
                                    !.result = Find(table, target, factory, type)]
    /\ UNCHANGED <<table, lastWritten, guards, baseline, stack, heap>>
    /\ UNCHANGED <<hookVars, asyncVars, schedVars, runtimeVars>>

(***************************************************************************)
(* The registry specification.                                             *)
(***************************************************************************)
NextRegistry ==
    \/ \E k \in Key, v \in Value : InjectDependencyAt(k, v, MaxEntries)
    \/ \E k \in Key : RemoveDependencyAt(k)
    \/ ClearDependencies
    \/ \E k \in Key : FindExplicitValue(k.target, k.factory, k.type)

InitRegistry ==
    /\ InitHook
    /\ policy = "Ignore"
    /\ ~callbackSet
    /\ targetPtr # Null
    /\ InitDI
    /\ InitAsync

SpecRegistry == InitRegistry /\ [][NextRegistry]_vars

\* the entries written last under the keys of one target and factory
WrittenAt(target, factory, type) ==
    {e \in lastWritten : KeyOf(e) = ExplicitValueKey(target, factory, type)}

\* C10: a lookup for (X, F, T) yields the entry registered last under
\* (X, F, T) if there is one, otherwise the entry registered last under
\* (nullptr, F, T), otherwise nothing; entries of other factory keys,
\* the nullptr factory included, are never used for Depends(F).
C10_FindTargetThenGlobalSameFactory ==
    diEvent.op = "find" =>
        LET own == WrittenAt(diEvent.target, diEvent.factory, diEvent.type)
            glob == WrittenAt(GlobalTarget, diEvent.factory, diEvent.type)
        IN  IF own # {}
            THEN \A e \in own : diEvent.result = Some(e.value)
            ELSE IF glob # {}
            THEN \A e \in glob : diEvent.result = Some(e.value)
            ELSE diEvent.result = NullOpt

\* a Depends(F) lookup for a target that has only a plain entry of its own
\* is answered by the global entry of F
C10_Witness ==
    /\ diEvent.op = "find"
    /\ diEvent.target # GlobalTarget
    /\ diEvent.factory # NoFactory
    /\ WrittenAt(diEvent.target, diEvent.factory, diEvent.type) = {}
    /\ WrittenAt(diEvent.target, NoFactory, diEvent.type) # {}
    /\ WrittenAt(GlobalTarget, diEvent.factory, diEvent.type) # {}
    /\ diEvent.result.has

(***************************************************************************)
(* ScopedDependencyOverride: the guard returned by ScopeOverrideDependency.*)
(* Its constructor reads the entry of its key and then registers its value *)
(* (two registry calls); Restore() puts back what the constructor read.    *)
(***************************************************************************)
\* the guards that are being constructed or are active on key k
GuardsOn(gs, k) == {g \in Guard : gs[g].state # "none" /\ gs[g].key = k}

\* Restore(): re-register the previous value, or remove the entry
Restore(tbl, guard) ==
    IF guard.hadPrevious
    THEN Register(tbl, guard.key, guard.previous)
    ELSE Remove(tbl, guard.key)

\* constructor, first call: FindExplicitValueExactTyped -> previous_
OverrideFindPrevious(g, k, v) ==
    /\ guards[g].state = "none"
    /\ LET old == FindExact(table, k)
       IN  /\ guards' = [guards EXCEPT ![g] =
                            [state |-> "ctor", key |-> k, value |-> v,
                             hadPrevious |-> old.has, previous |-> old.value]]
           /\ baseline' = IF GuardsOn(guards, k) = {}
                          THEN {b \in baseline : b.key # k} \cup {[key |-> k, entry |-> old]}
                          ELSE baseline
    /\ diEvent' = [NoDiEvent EXCEPT !.op = "override"]
    /\ UNCHANGED <<table, lastWritten, stack, heap>>
    /\ UNCHANGED <<hookVars, asyncVars, schedVars, runtimeVars>>

\* constructor, second call: RegisterExplicitValue; the guard is active
OverrideRegister(g) ==
    /\ guards[g].state = "ctor"
    /\ table' = Register(table, guards[g].key, guards[g].value)
    /\ guards' = [guards EXCEPT ![g].state = "live", ![g].value = Null]
    /\ diEvent' = [NoDiEvent EXCEPT !.op = "override"]
    /\ UNCHANGED <<lastWritten, baseline, stack, heap>>
    /\ UNCHANGED <<hookVars, asyncVars, schedVars, runtimeVars>>

\* a step that ended a guard of key k reports, when no guard of k is left,
\* the entry of k next to the entry k had before the first of its guards
GuardEnded(op, k) ==
    IF GuardsOn(guards', k) = {}
    THEN /\ diEvent' = [NoDiEvent EXCEPT
                            !.op = op, !.last = TRUE,
                            !.result = FindExact(table', k),
                            !.expected = (CHOOSE b \in baseline : b.key = k).entry]
         /\ baseline' = {b \in baseline : b.key # k}
    ELSE /\ diEvent' = [NoDiEvent EXCEPT !.op = op]
         /\ UNCHANGED baseline

\* ~ScopedDependencyOverride(): Restore()
OverrideDestroy(g) ==
    /\ guards[g].state = "live"
    /\ table' = Restore(table, guards[g])
    /\ guards' = [guards EXCEPT ![g] = NoGuard]
    /\ GuardEnded("restore", guards[g].key)
    /\ UNCHANGED <<lastWritten, stack, heap>>
    /\ UNCHANGED <<hookVars, asyncVars, schedVars, runtimeVars>>

\* g = std::move(h): Restore() of g, then g takes over h, h becomes inactive
OverrideMoveAssign(g, h) ==
    /\ g # h
    /\ guards[h].state = "live"
    /\ guards[g].state # "ctor"
    /\ guards' = [guards EXCEPT ![g] = guards[h], ![h] = NoGuard]
    /\ IF guards[g].state = "live"
       THEN /\ table' = Restore(table, guards[g])
            /\ GuardEnded("move", guards[g].key)
       ELSE /\ diEvent' = [NoDiEvent EXCEPT !.op = "move"]
            /\ UNCHANGED <<table, baseline>>
    /\ UNCHANGED <<lastWritten, stack, heap>>
    /\ UNCHANGED <<hookVars, asyncVars, schedVars, runtimeVars>>

(***************************************************************************)
(* The override specification: guards created and destroyed by any thread  *)
(* in any order over a registry that holds at most one entry beforehand.   *)
(***************************************************************************)
\* the keys the test and the example put guards on:
\* ScopeOverrideDependency<&test0>(&config) and
\* ScopeOverrideDependency(&global_override, factory)
OverrideKey ==
    {ExplicitValueKey("test0", NoFactory, "pointer"),
     ExplicitValueKey(GlobalTarget, "get_config_borrowed", "pointer")}

InitOverride ==
    /\ InitHook
    /\ policy = "Ignore"
    /\ ~callbackSet
    /\ targetPtr # Null
    /\ table \in {{}} \cup {{Entry(k, v)} : k \in OverrideKey, v \in Value}
    /\ lastWritten = table
    /\ guards = [g \in Guard |-> NoGuard]
    /\ baseline = {}
    /\ stack = <<>>
    /\ heap = {}
    /\ diEvent = NoDiEvent
    /\ InitAsync

NextOverride ==
    \/ \E g \in Guard, k \in OverrideKey, v \in Value : OverrideFindPrevious(g, k, v)
    \/ \E g \in Guard : OverrideRegister(g)
    \/ \E g \in Guard : OverrideDestroy(g)
    \/ \E g, h \in Guard : OverrideMoveAssign(g, h)

SpecOverride == InitOverride /\ [][NextOverride]_vars

\* C9: once every guard created for a key is destroyed, the entry of the
\* key is what it was before the first of them was created.
C9_AllGuardsGoneRestoresEntry ==
    diEvent.last => diEvent.result = diEvent.expected

(***************************************************************************)
(* Injected calls: the frames of a call chain, their slots, the objects    *)
(* the DI layer allocates, and the synchronous resolver.                   *)
(***************************************************************************)
\* DependsPtrValue metadata of a parameter declared "= Depends(cached)"
DependsPlain(isRef, cached) ==
    [factory |-> NoFactory, returnsPointer |-> FALSE, cached |-> cached, isRef |-> isRef]
\* ... and of one declared "= Depends(factory)"
DependsFactory(isRef, factory) ==
    [factory |-> factory, returnsPointer |-> (factory \in PointerFactory),
     cached |-> TRUE, isRef |-> isRef]

\* the placeholder parameters of the injected functions, in declaration order
Params(target) ==
    CASE target = "test0" ->
            <<DependsPlain(TRUE, TRUE), DependsFactory(FALSE, "get_config_borrowed")>>
      [] target = "test1" ->
            <<DependsPlain(FALSE, FALSE), DependsFactory(TRUE, "get_config_owned"),
              DependsFactory(TRUE, "get_config_borrowed")>>
      [] target = "print" ->
            <<DependsFactory(TRUE, "get_config_owned")>>
      [] target = "benchmark" ->
            <<DependsPlain(FALSE, TRUE)>>
      [] target = "benchmark_async_depends_plain" ->
            <<DependsPlain(FALSE, TRUE)>>
      [] target = "benchmark_async_depends_factory_ref" ->
            <<DependsFactory(TRUE, "AsyncConfigFactoryRef")>>
      [] target = "HandleHealth" ->
            <<DependsFactory(FALSE, "HealthConfigFactory")>>
      [] target = "HandleAsyncHealth" ->
            <<DependsFactory(FALSE, "AsyncHealthConfigFactory")>>
      \* declarations whose parameters share a slot key
      [] target = "two_owned" ->
            <<DependsFactory(FALSE, "get_config_owned"),
              DependsFactory(FALSE, "get_config_owned")>>
      [] target = "plain_then_uncached" ->
            <<DependsPlain(FALSE, TRUE), DependsPlain(FALSE, FALSE)>>

\* InjectContext of one call: local_ of its InjectContextLease
NewFrame(target) == [target |-> target, next |-> 1, slots |-> {}]
NoSlot == [factory |-> NoFactory, obj |-> Null, owned |-> FALSE, depth |-> 0]

\* a lookup that stops at the current context
FindSlotLocalOnly(stk, factory) ==
    IF stk = <<>>
    THEN [factory |-> NoFactory, obj |-> Null, owned |-> FALSE, depth |-> 0]
    ELSE LET here == {sl \in Last(stk).slots : sl.factory = factory}
         IN  IF here # {}
             THEN LET sl == CHOOSE x \in here : TRUE
                  IN  [factory |-> factory, obj |-> sl.obj, owned |-> sl.owned,
                       depth |-> Len(stk)]
             ELSE [factory |-> NoFactory, obj |-> Null, owned |-> FALSE, depth |-> 0]

\* FindSlotInChain: the current context first, then its parents
RECURSIVE FindSlotInChain(_, _)
FindSlotInChain(stk, factory) ==
    IF stk = <<>>
    THEN NoSlot
    ELSE LET here == {sl \in Last(stk).slots : sl.factory = factory}
         IN  IF here # {}
             THEN LET sl == CHOOSE x \in here : TRUE
                  IN  [factory |-> factory, obj |-> sl.obj, owned |-> sl.owned,
                       depth |-> Len(stk)]
             ELSE FindSlotInChain(SubSeq(stk, 1, Len(stk) - 1), factory)

\* UpsertLocalSlot: CurrentContext()->slots[key] = slot; the holder of the
\* slot it replaces is released
UpsertLocalSlot(stk, factory, obj, owned) ==
    LET top == Last(stk)
        old == {sl \in top.slots : sl.factory = factory}
    IN  [stack |-> [stk EXCEPT ![Len(stk)].slots =
                        (top.slots \ old) \cup {[factory |-> factory, obj |-> obj, owned |-> owned]}],
         released |-> {sl.obj : sl \in {x \in old : x.owned}}]

Ids(hp) == {o.id : o \in hp}
\* operator new hands out the lowest free address
NewId(hp) == CHOOSE i \in HeapId \ Ids(hp) : \A j \in HeapId \ Ids(hp) : i <= j
Allocate(hp, origin, depth) == hp \cup {[id |-> NewId(hp), origin |-> origin, depth |-> depth]}
\* the holders' deleter: delete static_cast<T*>(p)
Delete(hp, objs) == {o \in hp : o.id \notin objs}
Destroyed(hp, objs) ==
    {[id |-> x, live |-> x \in Ids(hp),
      origin |-> IF x \in Ids(hp) THEN (CHOOSE o \in hp : o.id = x).origin ELSE "none",
      depth |-> IF x \in Ids(hp) THEN (CHOOSE o \in hp : o.id = x).depth ELSE 0] : x \in objs}

\* a resolver that never consults the registry
ExplicitIgnored(tbl, target, factory) == [has |-> FALSE, value |-> Null]

\* TryPopulateRawSlotFromExplicit: reference_wrapper<T> first, then T*
TryResolveExplicit(tbl, target, factory) ==
    LET ref == Find(tbl, target, factory, "reference_wrapper")
        raw == Find(tbl, target, factory, "pointer")
    IN  IF ref.has THEN ref
        ELSE IF raw.has /\ raw.value # Null THEN raw
        ELSE NullOpt

\* EnsureRawSlot: "if (cached)" before FindSlotInChain
AlwaysReusesSlot(cached) == TRUE
ReusesSlot(cached) == cached

\* a resolver that caches every pointer the metadata produced
NeverKeepsExisting(existing, ptr, owned) == FALSE
\* same_cached_ptr && !ptr_meta->owned: the slot found for the key already
\* holds the pointer and the metadata marks it borrowed
KeepsExisting(existing, ptr, owned) == existing.obj = ptr /\ ~owned

\* resolve_ptr_meta: InjectRegistry::Resolve runs the metadata closure
\* (MakeDependsPtrValue invokes the factory of Depends(factory)), then
\* 1. an explicit value for (target, factory) is cached as a borrowed slot,
\* 2. a Depends() placeholder reuses a slot of the chain or gets a
\*    default-constructed object the slot owns,
\* 3. the pointer the factory produced is cached, owned iff the factory
\*    returns a pointer.
ResolvePtrMeta(stk, tbl, hp, target, meta) ==
    LET depth == Len(stk)
        invoked == meta.factory # NoFactory
        owned == invoked /\ meta.returnsPointer
        ptr == IF ~invoked THEN Null ELSE IF owned THEN NewId(hp) ELSE StaticObj
        hp1 == IF owned THEN Allocate(hp, meta.factory, depth) ELSE hp
        made1 == IF owned THEN ptr ELSE Null
        explicit == TryResolveExplicit(tbl, target, meta.factory)
        Cached(up, hp2, out, made) ==
            [stack |-> up.stack, heap |-> Delete(hp2, up.released), out |-> out,
             invoked |-> invoked, made |-> made,
             destroyed |-> Destroyed(hp2, up.released)]
        Kept(out) ==
            [stack |-> stk, heap |-> hp1, out |-> out,
             invoked |-> invoked, made |-> made1, destroyed |-> {}]
    IN  IF explicit.has
        THEN Cached(UpsertLocalSlot(stk, meta.factory, explicit.value, FALSE),
                    hp1, explicit.value, made1)
        ELSE IF ~invoked
        THEN LET slot == IF ReusesSlot(meta.cached)
                         THEN FindSlotInChain(stk, NoFactory)
                         ELSE NoSlot
             IN  IF slot.obj # Null
                 THEN Kept(slot.obj)
                 ELSE Cached(UpsertLocalSlot(stk, NoFactory, NewId(hp1), TRUE),
                             Allocate(hp1, "default", depth), NewId(hp1), NewId(hp1))
        ELSE LET existing == FindSlotInChain(stk, meta.factory)
             IN  IF KeepsExisting(existing, ptr, owned)
                 THEN Kept(ptr)
                 ELSE Cached(UpsertLocalSlot(stk, meta.factory, ptr, owned),
                             hp1, ptr, made1)

\* ResolveArg<Index>: a pointer parameter takes what resolve_ptr_meta wrote
\* out, a reference parameter is bound through TryResolveRawPtr to the slot
\* now found in the chain
ResolveArg(stk, tbl, hp, target, meta) ==
    LET r == ResolvePtrMeta(stk, tbl, hp, target, meta)
    IN  IF meta.isRef
        THEN [r EXCEPT !.out = FindSlotInChain(r.stack, meta.factory).obj]
        ELSE r

\* inject::Call: AcquireInjectCallLease pushes the frame of the call; a
\* nested call is made from the body of the call on top
InjectCall(target, room) ==
    /\ Len(stack) < room
    /\ stack # <<>> => Last(stack).next > Len(Params(Last(stack).target))
    /\ stack' = Append(stack, NewFrame(target))
    /\ diEvent' = [NoDiEvent EXCEPT !.op = "call", !.target = target,
                                    !.depth = Len(stack) + 1]
    /\ UNCHANGED <<table, lastWritten, guards, baseline, heap>>
    /\ UNCHANGED <<hookVars, asyncVars, schedVars, runtimeVars>>

\* the resolution calls operator new: the factory returns a fresh object, or
\* a Depends() placeholder finds neither an explicit value nor a slot to reuse
Allocates(stk, tbl, target, meta) ==
    \/ meta.factory # NoFactory /\ meta.returnsPointer
    \/ /\ meta.factory = NoFactory
       /\ ~TryResolveExplicit(tbl, target, NoFactory).has
       /\ ~(ReusesSlot(meta.cached) /\ FindSlotInChain(stk, NoFactory).obj # Null)

\* Resolver::Invoke resolves the placeholders of the call in declaration order
InjectResolveArg ==
    /\ stack # <<>>
    /\ Last(stack).target \notin TaskTarget
    /\ Last(stack).next <= Len(Params(Last(stack).target))
    /\ Allocates(stack, table, Last(stack).target,
                 Params(Last(stack).target)[Last(stack).next])
          => HeapId \ Ids(heap) # {}
    /\ LET top == Last(stack)
           meta == Params(top.target)[top.next]
           r == ResolveArg(stack, table, heap, top.target, meta)
       IN  /\ stack' = [r.stack EXCEPT ![Len(stack)].next = top.next + 1]
           /\ heap' = r.heap
           /\ diEvent' = [NoDiEvent EXCEPT
                             !.op = "resolve", !.target = top.target,
                             !.factory = meta.factory, !.index = top.next,
                             !.depth = Len(stack), !.cached = meta.cached,
                             !.result = Some(r.out), !.invoked = r.invoked,
                             !.made = r.made, !.destroyed = r.destroyed]
    /\ UNCHANGED <<table, lastWritten, guards, baseline>>
    /\ UNCHANGED <<hookVars, asyncVars, schedVars, runtimeVars>>

\* the call returns: ~InjectContextLease removes the frame, and local_ dies
\* with its slots and their holders
InjectReturn ==
    /\ stack # <<>>
    /\ Last(stack).next > Len(Params(Last(stack).target))
    /\ LET top == Last(stack)
           owned == {sl.obj : sl \in {x \in top.slots : x.owned}}
       IN  /\ stack' = SubSeq(stack, 1, Len(stack) - 1)
           /\ heap' = Delete(heap, owned)
           /\ diEvent' = [NoDiEvent EXCEPT
                             !.op = "return", !.target = top.target,
                             !.depth = Len(stack),
                             !.destroyed = Destroyed(heap, owned)]
    /\ UNCHANGED <<table, lastWritten, guards, baseline>>
    /\ UNCHANGED <<hookVars, asyncVars, schedVars, runtimeVars>>

(***************************************************************************)
(* The injection specification: one chain of injected calls, while at most *)
(* MaxOverrides explicit values are registered and removed at any moment.  *)
(***************************************************************************)
\* the keys a resolution of these functions can consult, for a handle passed
\* as a pointer (as the test and the example do): the target itself or
\* nullptr, with the factory key of one of its placeholders
ConsultedKey ==
    {k \in Key :
        /\ k.type = "pointer"
        /\ \E target \in InjectTarget :
              /\ k.target \in {target, GlobalTarget}
              /\ \E i \in 1..Len(Params(target)) : Params(target)[i].factory = k.factory}

NextInject ==
    \/ \E k \in ConsultedKey, v \in Value : InjectDependencyAt(k, v, MaxOverrides)
    \/ \E k \in ConsultedKey : RemoveDependencyAt(k)
    \/ \E target \in InjectTarget : InjectCall(target, MaxDepth)
    \/ InjectResolveArg
    \/ InjectReturn

SpecInject == InitRegistry /\ [][NextInject]_vars

(***************************************************************************)
(* Properties of the injected calls.                                       *)
(***************************************************************************)
\* C7: an object a pointer-returning factory produced for a Depends(factory)
\* parameter is destroyed exactly once, when the scope of the injected call
\* it was produced for ends; nothing else (the static instance of a
\* reference-returning factory, an explicitly injected object) is destroyed.
C7_OwnedDestroyedOnceAtScopeEnd ==
    /\ \A o \in heap : o.origin = "get_config_owned" => o.depth <= Len(stack)
    /\ \A d \in diEvent.destroyed :
          /\ d.live
          /\ d.id \in HeapId
          /\ d.origin = "get_config_owned" =>
                (diEvent.op = "return" /\ d.depth = diEvent.depth)

\* C8 (as stated): a placeholder resolves to an explicitly supplied object
\* only if the registry supplies that object to the function being called.
C8_OverrideReachesTargetOnly ==
    (diEvent.op = "resolve" /\ diEvent.result.value \in Value) =>
        TryResolveExplicit(table, diEvent.target, diEvent.factory) = diEvent.result

\* C8 (amended): a placeholder resolves to an explicitly supplied object
\* only if the registry supplies that object to the function being called,
\* or the placeholder is a cached Depends() of a call nested in a call whose
\* frame holds the object in its borrowed slot of the same key.
C8_OverrideReachesTargetAndNestedCachedCalls ==
    (diEvent.op = "resolve" /\ diEvent.result.value \in Value) =>
        \/ TryResolveExplicit(table, diEvent.target, diEvent.factory) = diEvent.result
        \/ /\ diEvent.cached
           /\ diEvent.factory = NoFactory
           /\ \E d \in 1..(diEvent.depth - 1) :
                 \E sl \in stack[d].slots :
                    /\ sl.factory = NoFactory
                    /\ sl.obj = diEvent.result.value
                    /\ ~sl.owned

\* a call made from the body of an overridden function receives the
\* override through the slot of its caller, while the registry holds no
\* entry for it
C8_Witness ==
    /\ diEvent.op = "resolve"
    /\ diEvent.depth = 2
    /\ diEvent.result.value \in Value
    /\ stack[1].target # diEvent.target
    /\ ~TryResolveExplicit(table, diEvent.target, diEvent.factory).has
    /\ TryResolveExplicit(table, stack[1].target, NoFactory) = diEvent.result
    /\ FetchAt(table, ExplicitValueKey(stack[1].target, NoFactory, "pointer")).has

(***************************************************************************)
(* The default-resolution specification: chains of up to MaxChain injected *)
(* calls while the explicit-value registry stays empty.                    *)
(***************************************************************************)
NextDefault ==
    \/ \E target \in InjectTarget : InjectCall(target, MaxChain)
    \/ InjectResolveArg
    \/ InjectReturn

SpecDefault == InitRegistry /\ [][NextDefault]_vars

\* frames below the resolving one that hold a slot of a plain Depends()
PlainHolders(depth) ==
    {d \in 1..(depth - 1) : \E sl \in stack[d].slots : sl.factory = NoFactory}
Nearest(ds) == CHOOSE d \in ds : \A e \in ds : e <= d
\* the resolution made a default-constructed object the frame of the call owns
DefaultConstructed ==
    /\ diEvent.result.value \in HeapId
    /\ diEvent.made = diEvent.result.value
    /\ \E sl \in stack[diEvent.depth].slots :
          sl.factory = NoFactory /\ sl.obj = diEvent.result.value /\ sl.owned

\* C11 (as stated): with nothing registered, a plain Depends() of a top-level
\* call resolves to a default-constructed object its scope owns, and every
\* cached plain Depends() resolved by a call nested in that scope receives
\* the object of the top-level call.
C11_NestedCachedPlainGetsTopLevelObject ==
    (diEvent.op = "resolve" /\ diEvent.factory = NoFactory /\ table = {}) =>
        /\ diEvent.depth = 1 => DefaultConstructed
        /\ (diEvent.depth > 1 /\ diEvent.cached /\ 1 \in PlainHolders(diEvent.depth)) =>
              \E sl \in stack[1].slots :
                 sl.factory = NoFactory /\ sl.obj = diEvent.result.value

\* C11 (amended): with nothing registered, a cached plain Depends() receives
\* the object of the nearest enclosing call that holds one (the top-level
\* call's, unless a call in between made its own through Depends(false)),
\* and nothing is constructed; every other plain placeholder resolves to a
\* default-constructed object the scope of its own call owns.
C11_NestedCachedPlainGetsNearestObject ==
    (diEvent.op = "resolve" /\ diEvent.factory = NoFactory /\ table = {}) =>
        IF diEvent.cached /\ PlainHolders(diEvent.depth) # {}
        THEN /\ diEvent.made = Null
             /\ \E sl \in stack[Nearest(PlainHolders(diEvent.depth))].slots :
                   sl.factory = NoFactory /\ sl.obj = diEvent.result.value
        ELSE DefaultConstructed

\* a nested call receives the default-constructed object of the top-level call
C11_Witness ==
    /\ diEvent.op = "resolve"
    /\ diEvent.depth = 2
    /\ diEvent.cached
    /\ diEvent.factory = NoFactory
    /\ table = {}
    /\ \E sl \in stack[1].slots :
          /\ sl.factory = NoFactory /\ sl.owned
          /\ sl.obj = diEvent.result.value
          /\ sl.obj \in Ids(heap)

(***************************************************************************)
(* The coroutine-aware resolver of the targets returning Task<T>.          *)
(***************************************************************************)
\* TryPopulateRawSlotFromOverride: the override registry keyed by
\* (target, factory) with the fallback to (nullptr, factory)
TryPopulateRawSlotFromOverride(tbl, target, factory) ==
    LET ref == Find(tbl, target, factory, "reference_wrapper")
        raw == Find(tbl, target, factory, "pointer")
    IN  IF ref.has THEN ref
        ELSE IF raw.has /\ raw.value # Null THEN raw
        ELSE NullOpt

\* metadata that takes the ownership from the type of the factory's return
\* value itself: a Task is no pointer
AwaitedPtrValueOfTaskType(hp, meta) ==
    IF meta.factory = NoFactory
    THEN [ptr |-> Null, owned |-> FALSE, invoked |-> FALSE]
    ELSE [ptr |-> IF meta.returnsPointer THEN NewId(hp) ELSE StaticObj,
          owned |-> meta.returnsPointer /\ meta.factory # "AsyncHealthConfigFactory",
          invoked |-> TRUE]

\* MakeDefaultArgMetadataAsyncFromFactory / ...FromDepends, awaited by
\* resolve_ptr_meta_async: the pointer the factory (or the task it returns)
\* produced, and whether the DI scope owns it
AwaitedPtrValue(hp, meta) ==
    IF meta.factory = NoFactory
    THEN [ptr |-> Null, owned |-> FALSE, invoked |-> FALSE]
    ELSE [ptr |-> IF meta.returnsPointer THEN NewId(hp) ELSE StaticObj,
          owned |-> meta.returnsPointer, invoked |-> TRUE]

\* resolve_ptr_meta_async: the metadata task is awaited first, then the
\* override table, the Depends() placeholder flow, and the caching of the
\* pointer the metadata produced
ResolvePtrMetaAsync(stk, tbl, hp, target, meta) ==
    LET depth == Len(stk)
        pm == AwaitedPtrValue(hp, meta)
        hp1 == IF pm.invoked /\ pm.owned THEN Allocate(hp, meta.factory, depth) ELSE hp
        made1 == IF pm.invoked /\ pm.owned THEN pm.ptr ELSE Null
        override == TryPopulateRawSlotFromOverride(tbl, target, meta.factory)
        Result(st, hp2, released, out, made) ==
            [stack |-> st, heap |-> Delete(hp2, released), out |-> out,
             invoked |-> pm.invoked, made |-> made,
             destroyed |-> Destroyed(hp2, released)]
    IN  IF override.has
        THEN LET up == UpsertLocalSlot(stk, meta.factory, override.value, FALSE)
             IN  Result(up.stack, hp1, up.released, override.value, made1)
        ELSE IF meta.factory = NoFactory
        THEN LET slot == IF meta.cached THEN FindSlotInChain(stk, NoFactory) ELSE NoSlot
             IN  IF slot.obj # Null
                 THEN Result(stk, hp1, {}, slot.obj, made1)
                 ELSE LET up == UpsertLocalSlot(stk, NoFactory, NewId(hp1), TRUE)
                      IN  Result(up.stack, Allocate(hp1, "default", depth),
                                 up.released, NewId(hp1), NewId(hp1))
        ELSE IF pm.ptr = Null
        THEN Result(stk, hp1, {}, Null, made1)
        ELSE LET existing == FindSlotInChain(stk, meta.factory)
             IN  IF KeepsExisting(existing, pm.ptr, pm.owned)
                 THEN Result(stk, hp1, {}, pm.ptr, made1)
                 ELSE LET up == UpsertLocalSlot(stk, meta.factory, pm.ptr, pm.owned)
                      IN  Result(up.stack, hp1, up.released, pm.ptr, made1)

\* ResolveArgAsyncPlaceholder<Index>: a reference parameter is bound through
\* TryResolveRawPtr to the slot found in the chain
ResolveArgAsyncPlaceholder(stk, tbl, hp, target, meta) ==
    LET r == ResolvePtrMetaAsync(stk, tbl, hp, target, meta)
    IN  IF meta.isRef
        THEN [r EXCEPT !.out = FindSlotInChain(r.stack, meta.factory).obj]
        ELSE r

\* what ResolveOne of a target returning Task<T> leaves behind: the frames,
\* the heap and the argument produced by ResolveArgAsyncPlaceholder
ResolveOneEffect ==
    /\ stack # <<>>
    /\ Last(stack).target \in TaskTarget
    /\ Last(stack).next <= Len(Params(Last(stack).target))
    /\ Allocates(stack, table, Last(stack).target,
                 Params(Last(stack).target)[Last(stack).next])
          => HeapId \ Ids(heap) # {}
    /\ LET top == Last(stack)
           meta == Params(top.target)[top.next]
           r == ResolveArgAsyncPlaceholder(stack, table, heap, top.target, meta)
       IN  /\ stack' = [r.stack EXCEPT ![Len(stack)].next = top.next + 1]
           /\ heap' = r.heap
           /\ diEvent' = [NoDiEvent EXCEPT
                             !.op = "resolve", !.target = top.target,
                             !.factory = meta.factory, !.index = top.next,
                             !.depth = Len(stack), !.cached = meta.cached,
                             !.result = Some(r.out), !.invoked = r.invoked,
                             !.made = r.made, !.destroyed = r.destroyed]
    /\ UNCHANGED <<table, lastWritten, guards, baseline>>

\* ResolveOne of a target returning Task<T>: the resolving task is driven to
\* completion by Get() before the next placeholder is looked at
InjectResolveArgAsync ==
    /\ ResolveOneEffect
    /\ UNCHANGED <<hookVars, asyncVars, schedVars, runtimeVars>>

(***************************************************************************)
(* Coroutines: Task<T>, its promise, and the TaskScheduler of the thread.  *)
(***************************************************************************)
\* the factories that are coroutines themselves
TaskFactory == {"AsyncHealthConfigFactory", "AsyncConfigFactoryRef"}
\* the coroutines the thread's code starts by hand: ValidateAsync awaits
\* nothing, EnsureAuthorized is injected and awaits ValidateAsync, a
\* coroutine that is not injected awaits EnsureAuthorized(), and a
\* coroutine awaits std::suspend_always, which nothing resumes
UserCoroutine == {"ValidateAsync", "EnsureAuthorized", "AwaitsEnsureAuthorized",
                  "suspend_always"}
InjectedCoroutine == {"EnsureAuthorized"}

\* the awaits of a coroutine body, in order; after the last it co_returns
Body(fn, factory) ==
    CASE fn = "ResolveArgAsyncPlaceholder" -> <<"TryResolveDefaultArgForParamAsync">>
      [] fn = "TryResolveDefaultArgForParamAsync" -> <<"resolve_ptr_meta_async">>
      [] fn = "resolve_ptr_meta_async" ->
            IF factory = NoFactory
            THEN <<"MakeDefaultArgMetadataAsyncFromDepends">>
            ELSE <<"MakeDefaultArgMetadataAsyncFromFactory">>
      [] fn = "MakeDefaultArgMetadataAsyncFromFactory" -> <<"ConvertFactoryResultAsync">>
      [] fn = "ConvertFactoryResultAsync" ->
            IF factory \in TaskFactory THEN <<factory>> ELSE <<>>
      [] fn = "EnsureAuthorized" -> <<"ValidateAsync">>
      [] fn = "AwaitsEnsureAuthorized" -> <<"EnsureAuthorized">>
      [] fn = "suspend_always" -> <<"std::suspend_always">>
      [] OTHER -> <<>>

\* a handle that never reports completion
NeverDone(cs, c) == FALSE
\* Task::Done: !handle_ || handle_.done()
Done(cs, c) == c = 0 \/ cs[c].status = "done"

\* operator new of a coroutine frame: the lowest free frame
FreeCoro(cs) ==
    CHOOSE c \in CoroId :
        /\ cs[c].status = "none"
        /\ \A d \in CoroId : cs[d].status = "none" => c <= d

\* a scheduler that loses what it is handed
EnqueueDropped(q, cs, handle, state) == q

\* TaskScheduler::Enqueue: a null or finished handle is ignored; the rank of
\* an entry is its place in the order of enqueueing among the entries queued
Enqueue(q, cs, handle, state) ==
    IF Done(cs, handle)
    THEN q
    ELSE Append(q, [handle |-> handle, state |-> state, rank |-> Len(q) + 1])

\* ContextVar::Get of ActiveInjectStateVar, with the fallback of
\* GetActiveStateOwner: the ambient state of the thread when nothing is set
GetActiveStateOwner(slot) == IF slot = "unset" THEN "ambient" ELSE slot
\* ContextVar::Set: the slot takes the value, the token keeps what was there
Set(slot, value) ==
    [slot |-> value,
     token |-> [previous |-> slot, had_previous |-> slot # "unset"]]
\* ContextVar::RestoreFromToken
RestoreFromToken(slot, token) ==
    IF token.had_previous THEN token.previous ELSE "unset"

\* a promise that reports no inject state unless a lease is bound to it
InjectStateOfLeaseOnly(state, cur) == state
\* InjectStateFromLease: the state of the bound lease, and the active state
\* when no lease is bound
InjectStateFromLease(state, cur) == IF state # "null" THEN state ELSE cur

\* AcquireInjectCallStateOwner for an injected coroutine function called at
\* frame n while cur is active: a state of its own when cur is in no
\* injected call, which is so for the ambient state only (a lease state has
\* the call of the Task that holds it), else cur
AcquireInjectCallStateOwner(n, cur) ==
    IF cur = "ambient" THEN "lease" \o ToString(n) ELSE cur

\* a final awaiter that always takes the fast path
AlwaysSameState(ks, cur) == TRUE
\* same_state of TaskFinalAwaiter::await_suspend
SameState(ks, cur) == ks = "null" \/ ks = cur

\* handle.resume() while cur is the active inject state: the coroutine runs
\* to its next suspension point.
\* - co_await of a Task (Awaiter::await_suspend): the awaited coroutine gets
\*   the awaiting one as continuation, with the active state, and is enqueued
\*   with the state of its promise;
\* - co_await std::suspend_always: the coroutine just suspends;
\* - co_return (TaskFinalAwaiter::await_suspend): the continuation is resumed
\*   at once if its state is null or the active one, else it is enqueued.
\* A coroutine resumed after an await destroys the frame its awaiter owns.
\* The log names, in order, the coroutines that ran and under which state.
RECURSIVE Resume(_, _, _, _, _)
Resume(cs, q, c, cur, log) ==
    LET body == Body(cs[c].fn, cs[c].factory)
        cs0 == IF cs[c].child # 0
               THEN [cs EXCEPT ![cs[c].child] = NoCoro, ![c].child = 0,
                               ![c].scheduledUnder = "null"]
               ELSE [cs EXCEPT ![c].scheduledUnder = "null"]
        rec == [handle |-> c, under |-> cur,
                suspended |-> cs[c].suspendedUnder,
                scheduled |-> cs[c].scheduledUnder,
                awaited |-> cs[c].child,
                awaitedDone |-> cs[c].child = 0 \/ cs[cs[c].child].status = "done",
                finished |-> FALSE, continuation |-> 0,
                continuationState |-> "null", handoff |-> "none"]
    IN  IF cs[c].at <= Len(body)
        THEN IF body[cs[c].at] = "std::suspend_always"
             THEN [coro |-> [cs0 EXCEPT ![c].at = @ + 1,
                                        ![c].suspendedUnder = cur],
                   queue |-> q, log |-> Append(log, rec)]
             ELSE LET n == FreeCoro(cs0)
                      st == IF body[cs[c].at] \in InjectedCoroutine
                            THEN AcquireInjectCallStateOwner(n, cur) ELSE "null"
                      cs1 == [cs0 EXCEPT
                                 ![n] = [NoCoro EXCEPT
                                            !.fn = body[cs[c].at],
                                            !.factory = cs[c].factory,
                                            !.status = "suspended",
                                            !.state = st,
                                            !.continuation = c,
                                            !.continuationState = cur,
                                            !.suspendedUnder =
                                                IF st # "null" THEN st ELSE cur,
                                            !.scheduledUnder = cur],
                                 ![c].at = @ + 1,
                                 ![c].child = n,
                                 ![c].suspendedUnder = cur]
                  IN  [coro |-> cs1,
                       queue |-> Enqueue(q, cs1, n, InjectStateFromLease(st, cur)),
                       log |-> Append(log, rec)]
        ELSE LET k == cs0[c].continuation
                 ks == cs0[c].continuationState
                 cs1 == [cs0 EXCEPT ![c].status = "done",
                                    ![c].continuation = 0,
                                    ![c].continuationState = "null"]
                 fin == [rec EXCEPT !.finished = TRUE, !.continuation = k,
                                    !.continuationState = ks]
             IN  IF k = 0
                 THEN [coro |-> cs1, queue |-> q, log |-> Append(log, fin)]
                 ELSE IF SameState(ks, cur)
                 THEN TheOnly({Resume(frames, q, k, cur, l) :
                                  frames \in {cs1},
                                  l \in {Append(log, [fin EXCEPT !.handoff = "inline"])}})
                 ELSE [coro |-> cs1, queue |-> Enqueue(q, cs1, k, ks),
                       log |-> Append(log, [fin EXCEPT !.handoff = "queue"])]

\* a scheduler that takes the entry enqueued last
BackIndex(q) == Len(q)
\* queue_.front()
FrontIndex(q) == 1

\* queue_.pop_front() of the entry at i; the ranks close up
PopAt(q, i) ==
    [j \in 1..(Len(q) - 1) |->
        LET en == IF j < i THEN q[j] ELSE q[j + 1]
        IN  [en EXCEPT !.rank = IF en.rank > q[i].rank THEN en.rank - 1 ELSE en.rank]]

\* a scheduler step that always reports progress
RunOneAlwaysTrue(q) == TRUE
\* the value RunOne returns: false iff queue_.empty()
RunOneResult(q) == q # <<>>

\* ActiveInjectStateVar in the thread's synchronous code: set to the state
\* of the injected call being set up (InjectCallFrame::active), else unset
ActiveInjectStateVar(stk) == IF stk # <<>> THEN "lease" ELSE "unset"
\* GetActiveStateOwner() in the thread's synchronous code
MainActive(stk) == GetActiveStateOwner(ActiveInjectStateVar(stk))

\* RunOne on a non-empty queue: the front entry is taken; a finished handle
\* is dropped, any other is resumed inside an ActiveInjectStateScope of the
\* state of the entry, or of the active state if the entry has none; the
\* scope ends when resume() returns
RunOne(cs, q, stk) ==
    LET i == FrontIndex(q)
        step == q[i]
        rest == PopAt(q, i)
        slot == ActiveInjectStateVar(stk)
    IN  IF Done(cs, step.handle)
        THEN [coro |-> cs, queue |-> rest,
              event |-> [NoSchedEvent EXCEPT
                            !.op = "skip", !.handle = step.handle,
                            !.rank = step.rank, !.done = TRUE,
                            !.before = slot, !.after = slot]]
        ELSE LET guard == Set(slot, IF step.state # "null" THEN step.state
                                    ELSE GetActiveStateOwner(slot))
                 r == Resume(cs, rest, step.handle,
                             GetActiveStateOwner(guard.slot), <<>>)
             IN  [coro |-> r.coro, queue |-> r.queue,
                  event |-> [NoSchedEvent EXCEPT
                                !.op = "resume", !.handle = step.handle,
                                !.rank = step.rank, !.resumes = r.log,
                                !.before = slot,
                                !.after = RestoreFromToken(guard.slot, guard.token)]]

\* the handles the queue or a continuation still names
Referenced(cs, q) ==
    {q[i].handle : i \in 1..Len(q)} \cup {cs[c].continuation : c \in CoroId}

\* Task::Get(), first part: Schedule(), then the pumping loop is entered
GetStart(c) ==
    /\ get.phase # "pumping"
    /\ coro[c].status \in {"suspended", "done"}
    /\ coro[c].owner = "task"
    /\ queue' = Enqueue(queue, coro, c,
                        InjectStateFromLease(coro[c].state, MainActive(stack)))
    /\ get' = [task |-> c, phase |-> "pumping"]
    /\ schedEvent' = NoSchedEvent
    /\ coro' = IF Done(coro, c) THEN coro
               ELSE [coro EXCEPT ![c].scheduledUnder = MainActive(stack)]
    /\ UNCHANGED <<hookVars, diVars, asyncVars, runtimeVars>>

\* Task::Get(), one evaluation of "while (!Done()) if (!RunTaskSchedulerOnce())
\* throw": the value is taken once the task is done, the deadlock error is
\* thrown when RunOne returns false, and else one entry has been run
GetStep ==
    /\ get.phase = "pumping"
    /\ IF Done(coro, get.task)
       THEN /\ get' = [get EXCEPT !.phase = "returned"]
            /\ schedEvent' = NoSchedEvent
            /\ UNCHANGED <<coro, queue>>
       ELSE IF ~RunOneResult(queue)
       THEN /\ get' = [get EXCEPT !.phase = "threw"]
            /\ schedEvent' = NoSchedEvent
            /\ UNCHANGED <<coro, queue>>
       ELSE /\ \E c \in CoroId : coro[c].status = "none"
            /\ \E r \in {RunOne(coro, queue, stack)} :
                   /\ coro' = r.coro
                   /\ queue' = r.queue
                   /\ schedEvent' = r.event
            /\ UNCHANGED get
    /\ UNCHANGED <<hookVars, diVars, asyncVars, runtimeVars>>

(***************************************************************************)
(* Top-level inject states: the thread's reusable InjectContextState, the  *)
(* fresh ones made while it is referenced, and the Tasks holding a lease.  *)
(***************************************************************************)
Alive(tks) == {t \in TaskId : tks[t].alive}
\* the frames the leases of Tasks keep on the reusable state's context_stack
PooledFrames(pl, tks) == [i \in 1..Len(pl) |-> tks[pl[i]].frame]

\* a count that ignores the leases
UseCountOfStatic(tks, stk, cs) == 1
\* reusable.use_count(): the thread_local owner, the lease of every Task bound
\* to the state, and the lease and active scope of a call chain running on it
UseCount(tks, stk, cs) ==
    1 + Cardinality({t \in Alive(tks) : tks[t].state = "reusable"})
      + (IF stk # <<>> /\ cs = "reusable" THEN 2 ELSE 0)

\* ResetInjectContextState: context_stack holds the root only
ResetInjectContextState(frames) == <<>>

\* AcquireReusableTopLevelInjectStateOwner: a fresh state while the reusable
\* one is referenced elsewhere, else the reusable one after a reset
AcquireReusableTopLevelInjectStateOwner(pl, tks, stk, cs) ==
    IF UseCount(tks, stk, cs) # 1
    THEN [state |-> "fresh", frames |-> <<>>, pooled |-> pl]
    ELSE [state |-> "reusable",
          frames |-> ResetInjectContextState(PooledFrames(pl, tks)),
          pooled |-> <<>>]

\* inject::Call of a top-level call: no injected call is running, so the
\* active state is the ambient one with inject_call_depth = 0
TopLevelCall(target) ==
    /\ stack = <<>>
    /\ target \in TaskTarget => Alive(tasks) # TaskId
    /\ LET owner == AcquireReusableTopLevelInjectStateOwner(pooled, tasks, stack, chainState)
       IN  /\ chainState' = owner.state
           /\ pooled' = owner.pooled
           /\ stack' = Append(owner.frames, NewFrame(target))
           /\ diEvent' = [NoDiEvent EXCEPT !.op = "acquire", !.target = target,
                                           !.depth = Len(owner.frames) + 1]
    /\ UNCHANGED <<table, lastWritten, guards, baseline, heap, tasks>>
    /\ UNCHANGED <<hookVars, schedVars, runtimeVars>>

\* AfterCallSlot of a top-level call returning Task<T>: AutoBindInjectContext
\* moves the lease of the call into the Task
BindInjectContext(t) ==
    /\ Len(stack) = 1
    /\ Last(stack).target \in TaskTarget
    /\ Last(stack).next > Len(Params(Last(stack).target))
    /\ ~tasks[t].alive
    /\ \A u \in TaskId : u < t => tasks[u].alive
    /\ tasks' = [tasks EXCEPT ![t] = [alive |-> TRUE, state |-> chainState,
                                      frame |-> Last(stack)]]
    /\ pooled' = IF chainState = "reusable" THEN Append(pooled, t) ELSE pooled
    /\ stack' = <<>>
    /\ diEvent' = [NoDiEvent EXCEPT !.op = "bind", !.target = Last(stack).target,
                                    !.depth = 1, !.index = t]
    /\ \E c \in CoroId : coro[c].status = "none"
    /\ get.phase # "pumping"
    /\ coro' = [coro EXCEPT ![FreeCoro(coro)] =
                    [NoCoro EXCEPT !.fn = Last(stack).target, !.status = "suspended",
                                   !.state = "lease", !.owner = "task", !.task = t,
                                   !.suspendedUnder = "lease"]]
    /\ UNCHANGED <<queue, get, schedEvent>>
    /\ UNCHANGED <<table, lastWritten, guards, baseline, heap, chainState>>
    /\ UNCHANGED <<hookVars, runtimeVars>>

\* ~Task: the coroutine frame is destroyed and with it the lease; the frame
\* leaves the context_stack of its state and its holders are released
TaskDestroy(t) ==
    /\ tasks[t].alive
    /\ LET owned == {sl.obj : sl \in {x \in tasks[t].frame.slots : x.owned}}
       IN  /\ heap' = Delete(heap, owned)
           /\ diEvent' = [NoDiEvent EXCEPT
                             !.op = "destroy", !.target = tasks[t].frame.target,
                             !.index = t, !.destroyed = Destroyed(heap, owned)]
    /\ tasks' = [tasks EXCEPT ![t] = NoTask]
    /\ pooled' = SelectSeq(pooled, LAMBDA u : u # t)
    /\ get.phase # "pumping"
    /\ \A c \in CoroId : coro[c].task = t => c \notin Referenced(coro, queue)
    /\ coro' = [c \in CoroId |-> IF coro[c].task = t THEN NoCoro ELSE coro[c]]
    /\ get' = IF get.task # 0 /\ coro[get.task].task = t THEN NoGet ELSE get
    /\ UNCHANGED <<queue, schedEvent>>
    /\ UNCHANGED <<table, lastWritten, guards, baseline, stack, chainState>>
    /\ UNCHANGED <<hookVars, runtimeVars>>

\* the top-level calls of the pool specification, and what their bodies call
PoolTarget == {"benchmark", "test1", "benchmark_async_depends_plain"}

NextPool ==
    \/ \E target \in PoolTarget : TopLevelCall(target)
    \/ \E target \in {"benchmark"} : stack # <<>> /\ InjectCall(target, MaxDepth)
    \/ InjectResolveArg
    \/ InjectResolveArgAsync
    \/ InjectReturn
    \/ \E t \in TaskId : BindInjectContext(t)
    \/ \E t \in TaskId : TaskDestroy(t)

SpecPool == InitRegistry /\ [][NextPool]_vars

\* the slots of the frames held by Tasks
HeldSlots == UNION {tasks[t].frame.slots : t \in Alive(tasks)}

\* C12: a top-level call never observes a slot cached by another top-level
\* call, returned or held alive by a Task: its chain starts with its own
\* empty frame, what it resolves is no object of a held or ended scope, and
\* the reusable state is handed out only while no lease references it, so
\* that no held frame is dropped from its stack.
C12_TopLevelCallsAreIsolated ==
    /\ \A i \in 1..Len(stack) : stack[i].slots \cap HeldSlots = {}
    /\ diEvent.op = "acquire" => (Len(stack) = 1 /\ stack[1].slots = {})
    /\ diEvent.op = "resolve" =>
          /\ diEvent.result.value \notin {sl.obj : sl \in {x \in HeldSlots : x.owned}}
          /\ diEvent.result.value \in HeapId => diEvent.result.value \in Ids(heap)
    /\ (stack # <<>> /\ chainState = "reusable") =>
          \A t \in Alive(tasks) : tasks[t].state # "reusable"
    /\ \A t \in Alive(tasks) :
          tasks[t].state = "reusable" => \E i \in 1..Len(pooled) : pooled[i] = t

\* a top-level call resolves its placeholder on a fresh state while a Task
\* holds the reusable state with a cached object
C12_Witness ==
    /\ diEvent.op = "resolve"
    /\ Len(stack) = 1
    /\ chainState = "fresh"
    /\ \E t \in Alive(tasks) :
          /\ tasks[t].state = "reusable"
          /\ \E sl \in tasks[t].frame.slots : sl.owned /\ sl.obj \in Ids(heap)
    /\ diEvent.result.value \in Ids(heap)

(***************************************************************************)
(* The explicit-value specification: InjectDependency and RemoveDependency *)
(* with both handle types, around chains of up to MaxDepth calls of        *)
(* benchmark (Config* cfg = Depends()) and test0.                          *)
(***************************************************************************)
ExplicitTarget == {"benchmark", "test0"}
ExplicitKey ==
    {k \in Key : /\ k.target \in ExplicitTarget \cup {GlobalTarget}
                 /\ k.factory \in {NoFactory, "get_config_borrowed"}}

\* RemoveDependency<Target, T>(): RemoveExplicitValueTyped<T>(TargetKeyOf<Target>(),
\* nullptr); the record of the key keeps that its latest call was a removal
RemoveDependency(target, type) ==
    LET k == ExplicitValueKey(target, NoFactory, type)
    IN  /\ FetchAt(table, k).has
        /\ table' = Remove(table, k)
        /\ lastWritten' = {e \in lastWritten : KeyOf(e) # k} \cup {Entry(k, Null)}
        /\ diEvent' = NoDiEvent
        /\ UNCHANGED <<guards, baseline, stack, heap>>
        /\ UNCHANGED <<hookVars, asyncVars, schedVars, runtimeVars>>

NextExplicit ==
    \/ \E k \in ExplicitKey, v \in Value : InjectDependencyAt(k, v, MaxEntries)
    \/ \E k \in ExplicitKey : RemoveDependencyAt(k)
    \/ \E target \in ExplicitTarget : RemoveDependency(target, "pointer")
    \/ \E target \in ExplicitTarget : InjectCall(target, MaxDepth)
    \/ InjectResolveArg
    \/ InjectReturn

SpecExplicit == InitRegistry /\ [][NextExplicit]_vars

\* the entries the calls so far have left registered
Registered == {e \in lastWritten : e.value # Null}

\* what the resolution of a top-level call yields from the registered entries
\* alone: the explicit value for (target, factory) or (nullptr, factory),
\* otherwise the default of the placeholder
ResolvesFromRegistered ==
    LET meta == Params(diEvent.target)[diEvent.index]
        explicit == TryResolveExplicit(Registered, diEvent.target, meta.factory)
    IN  IF explicit.has
        THEN diEvent.result = explicit
        ELSE IF meta.factory = NoFactory \/ meta.returnsPointer
        THEN diEvent.result.value \in HeapId /\ diEvent.made = diEvent.result.value
        ELSE diEvent.result.value = StaticObj

\* C13 (as stated): after InjectDependency<&Target>(&x) a call of Target
\* whose Config* parameter is a placeholder receives &x; after
\* RemoveDependency<&Target, Config*>() a top-level call of Target resolves
\* the parameter as if the injection had never been registered.
C13_InjectedThenRemoved ==
    diEvent.op = "resolve" =>
        LET meta == Params(diEvent.target)[diEvent.index]
        IN  ~meta.isRef =>
                \A e \in WrittenAt(diEvent.target, NoFactory, "pointer") :
                    IF e.value # Null
                    THEN diEvent.result = Some(e.value)
                    ELSE diEvent.depth = 1 => ResolvesFromRegistered

\* C13 (amended): after InjectDependency<&Target>(&x) a call of Target
\* whose Config* parameter is a Depends() placeholder receives &x, unless a
\* std::reference_wrapper<Config> is registered for Target or globally; after
\* RemoveDependency<&Target, Config*>() a top-level call of Target resolves
\* the parameter as if the injection had never been registered.
C13_InjectedPlainThenRemoved ==
    diEvent.op = "resolve" =>
        LET meta == Params(diEvent.target)[diEvent.index]
        IN  ~meta.isRef =>
                \A e \in WrittenAt(diEvent.target, NoFactory, "pointer") :
                    IF e.value # Null
                    THEN (/\ meta.factory = NoFactory
                          /\ ~Find(Registered, diEvent.target, NoFactory,
                                   "reference_wrapper").has)
                            => diEvent.result = Some(e.value)
                    ELSE diEvent.depth = 1 => ResolvesFromRegistered

\* a top-level call of benchmark after the removal: nothing else is
\* registered, and cfg is a default-constructed Config again
C13_Witness ==
    /\ diEvent.op = "resolve"
    /\ diEvent.target = "benchmark"
    /\ diEvent.depth = 1
    /\ \E e \in WrittenAt("benchmark", NoFactory, "pointer") : e.value = Null
    /\ table = {}
    /\ diEvent.result.value \in HeapId

(***************************************************************************)
(* The order of the sources of a resolution (SpecInject).                  *)
(***************************************************************************)
\* the slot the chain of the callers holds for the key of the placeholder
\* just resolved (no function declares two placeholders of one key)
CallerSlot ==
    FindSlotInChain(SubSeq(stack, 1, diEvent.depth - 1), diEvent.factory)
\* the slots of that key in the frame of the call itself
OwnSlots == {sl \in stack[diEvent.depth].slots : sl.factory = diEvent.factory}
\* the value the registry holds for the call: (target, factory), else
\* (nullptr, factory); a reference_wrapper before a pointer
Supplied ==
    LET ref == Find(table, diEvent.target, diEvent.factory, "reference_wrapper")
    IN  IF ref.has THEN ref
        ELSE Find(table, diEvent.target, diEvent.factory, "pointer")

C15_FactoryInvokedOnlyWhenNeeded ==
    (diEvent.op = "resolve" /\ diEvent.factory # NoFactory) =>
        /\ Supplied.has => ~diEvent.invoked
        /\ CallerSlot.obj # Null => ~diEvent.invoked
        /\ diEvent.made # Null =>
              \E d \in 1..Len(stack) : \E sl \in stack[d].slots : sl.obj = diEvent.made

\* C16: when the factory of a placeholder produces the pointer the slot found
\* for its key already holds and the metadata marks it borrowed, the
\* resolution leaves every frame and every holder as it was; and no
\* resolution replaces an owned slot by a borrowed slot of the same pointer.
C16_SamePointerBorrowedKeepsSlot ==
    [][diEvent'.op = "resolve" =>
          LET meta == Params(diEvent'.target)[diEvent'.index]
              found == FindSlotInChain(stack, meta.factory)
          IN  /\ (/\ diEvent'.invoked
                  /\ ~meta.returnsPointer
                  /\ ~TryResolveExplicit(table, diEvent'.target, meta.factory).has
                  /\ found.obj = diEvent'.result.value)
                    => /\ stack' = [stack EXCEPT ![Len(stack)].next = @ + 1]
                       /\ heap' = heap
                       /\ diEvent'.destroyed = {}
              /\ \A d \in 1..Len(stack) : \A sl \in stack[d].slots :
                    sl.owned =>
                       [factory |-> sl.factory, obj |-> sl.obj, owned |-> FALSE]
                          \notin stack'[d].slots]_vars

\* test0 called from the body of test0: the caller's frame holds the instance
\* of get_config_borrowed, and the callee's frame gets no slot for it
C16_Witness ==
    /\ diEvent.op = "resolve"
    /\ diEvent.depth = 2
    /\ diEvent.invoked
    /\ diEvent.factory = "get_config_borrowed"
    /\ CallerSlot.obj = StaticObj
    /\ diEvent.result.value = StaticObj
    /\ OwnSlots = {}

(***************************************************************************)
(* The asynchronous-resolution specification: top-level calls of the two   *)
(* health handlers of the http-server example, both returning Task<T>, one *)
(* with a factory returning Config*, one with a factory returning          *)
(* Task<Config*>, while at most MaxOverrides explicit values are           *)
(* registered for them.                                                    *)
(***************************************************************************)
AsyncTarget == {"HandleHealth", "HandleAsyncHealth"}
AsyncKey ==
    [target : AsyncTarget \cup {GlobalTarget},
     factory : {"HealthConfigFactory", "AsyncHealthConfigFactory"},
     type : HandleType]

NextAsync ==
    \/ \E k \in AsyncKey, v \in Value : InjectDependencyAt(k, v, MaxOverrides)
    \/ \E k \in AsyncKey : RemoveDependencyAt(k)
    \/ \E target \in AsyncTarget : TopLevelCall(target)
    \/ InjectResolveArgAsync
    \/ \E t \in TaskId : BindInjectContext(t)
    \/ \E t \in TaskId : TaskDestroy(t)

SpecAsync == InitRegistry /\ [][NextAsync]_vars

ResolveOneStart ==
    /\ stack # <<>>
    /\ Last(stack).target \in TaskTarget
    /\ Last(stack).next <= Len(Params(Last(stack).target))
    /\ get.phase = "idle"
    /\ \E c \in CoroId : coro[c].status = "none"
    /\ LET n == FreeCoro(coro)
           meta == Params(Last(stack).target)[Last(stack).next]
           cs == [coro EXCEPT ![n] =
                     [NoCoro EXCEPT !.fn = "ResolveArgAsyncPlaceholder",
                                    !.factory = meta.factory,
                                    !.status = "suspended", !.owner = "task",
                                    !.suspendedUnder = MainActive(stack),
                                    !.scheduledUnder = MainActive(stack)]]
       IN  /\ coro' = cs
           /\ queue' = Enqueue(queue, cs, n,
                               InjectStateFromLease(cs[n].state, MainActive(stack)))
           /\ get' = [task |-> n, phase |-> "pumping"]
    /\ schedEvent' = NoSchedEvent
    /\ UNCHANGED <<hookVars, diVars, asyncVars, runtimeVars>>

\* ResolveOne, last part: Get() returned the resolved argument, and
\* resolved_task is destroyed with its frame
ResolveOneFinish ==
    /\ get.phase = "returned"
    /\ coro[get.task].fn = "ResolveArgAsyncPlaceholder"
    /\ ResolveOneEffect
    /\ coro' = [coro EXCEPT ![get.task] = NoCoro]
    /\ get' = NoGet
    /\ UNCHANGED <<queue, schedEvent>>
    /\ UNCHANGED <<hookVars, asyncVars, runtimeVars>>

\* no injected call is running and no Task is alive
GetIdle == stack = <<>> /\ Alive(tasks) = {} /\ get.phase = "idle"

NextGet ==
    \/ \E k \in AsyncKey, v \in Value : GetIdle /\ InjectDependencyAt(k, v, MaxOverrides)
    \/ \E k \in AsyncKey : GetIdle /\ RemoveDependencyAt(k)
    \/ \E target \in AsyncTarget :
          GetIdle /\ HeapId \ Ids(heap) # {} /\ TopLevelCall(target)
    \/ ResolveOneStart
    \/ GetStep
    \/ ResolveOneFinish
    \/ \E t \in TaskId : BindInjectContext(t)
    \/ \E c \in CoroId : stack = <<>> /\ get.phase = "idle" /\ GetStart(c)
    \/ \E t \in TaskId : get.phase \in {"returned", "threw"} /\ TaskDestroy(t)

SpecGet == InitRegistry /\ [][NextGet]_vars

\* the thread runs its code: a step that is possible is taken
SpecGetFair == SpecGet /\ WF_vars(NextGet)

\* C18: once HandleAsyncHealth (one Depends(factory) parameter, its factory
\* returning Task<Config*>) is called, the Get() of the returned task
\* returns with the task done, and no Get() raises the deadlock error.
C18_GetNeverDeadlocks ==
    /\ [](get.phase # "threw")
    /\ (diEvent.op = "acquire" /\ diEvent.target = "HandleAsyncHealth")
          ~> (/\ get.phase = "returned"
              /\ coro[get.task].fn = "HandleAsyncHealth"
              /\ coro[get.task].status = "done")

\* Get() has returned from the task of HandleAsyncHealth, whose frame holds
\* the Config that the task of AsyncHealthConfigFactory produced
C18_Witness ==
    /\ get.phase = "returned"
    /\ coro[get.task].fn = "HandleAsyncHealth"
    /\ queue = <<>>
    /\ \E sl \in tasks[coro[get.task].task].frame.slots :
          /\ sl.owned
          /\ \E o \in heap : o.id = sl.obj /\ o.origin = "AsyncHealthConfigFactory"

(***************************************************************************)
(* The scheduler specification: the thread's code starts up to MaxTasks    *)
(* coroutines, schedules them by hand, runs the scheduler step by step or  *)
(* through Get(), and destroys Tasks nothing refers to any more.           *)
(***************************************************************************)
\* a coroutine function is called: the frame is created suspended
\* (initial_suspend is suspend_always); an injected one is bound to the
\* inject state of its call
CreateTask(fn) ==
    /\ get.phase # "pumping"
    /\ Cardinality({c \in CoroId : coro[c].owner = "task"}) < MaxTasks
    /\ \E c \in CoroId : coro[c].status = "none"
    /\ LET n == FreeCoro(coro)
           st == IF fn \in InjectedCoroutine
                 THEN AcquireInjectCallStateOwner(n, MainActive(stack)) ELSE "null"
       IN  coro' = [coro EXCEPT ![n] =
                       [NoCoro EXCEPT !.fn = fn, !.status = "suspended",
                                      !.owner = "task", !.state = st,
                                      !.suspendedUnder =
                                          InjectStateFromLease(st, MainActive(stack))]]
    /\ UNCHANGED <<queue, get, schedEvent>>
    /\ UNCHANGED <<hookVars, diVars, asyncVars, runtimeVars>>

\* Task::Schedule
Schedule(c) ==
    /\ get.phase # "pumping"
    /\ coro[c].owner = "task"
    /\ coro[c].status = "suspended"
    /\ Len(queue) < MaxQueue
    /\ queue' = Enqueue(queue, coro, c,
                        InjectStateFromLease(coro[c].state, MainActive(stack)))
    /\ coro' = [coro EXCEPT ![c].scheduledUnder = MainActive(stack)]
    /\ schedEvent' = NoSchedEvent
    /\ UNCHANGED get
    /\ UNCHANGED <<hookVars, diVars, asyncVars, runtimeVars>>

\* RunTaskSchedulerOnce, called by the thread's code on a non-empty queue
RunTaskSchedulerOnce ==
    /\ get.phase # "pumping"
    /\ queue # <<>>
    /\ \E c \in CoroId : coro[c].status = "none"
    /\ \E r \in {RunOne(coro, queue, stack)} :
           /\ coro' = r.coro
           /\ queue' = r.queue
           /\ schedEvent' = r.event
    /\ UNCHANGED get
    /\ UNCHANGED <<hookVars, diVars, asyncVars, runtimeVars>>

\* ~Task of a coroutine no queue entry and no continuation refers to
DestroyTask(c) ==
    /\ get.phase # "pumping"
    /\ coro[c].owner = "task"
    /\ c \notin Referenced(coro, queue)
    /\ coro' = [coro EXCEPT ![c] = NoCoro]
    /\ get' = IF get.task = c THEN NoGet ELSE get
    /\ schedEvent' = NoSchedEvent
    /\ UNCHANGED queue
    /\ UNCHANGED <<hookVars, diVars, asyncVars, runtimeVars>>

NextSched ==
    \/ \E fn \in UserCoroutine \ {"AwaitsEnsureAuthorized"} : CreateTask(fn)
    \/ \E c \in CoroId : Schedule(c)
    \/ RunTaskSchedulerOnce
    \/ \E c \in CoroId : GetStart(c)
    \/ GetStep
    \/ \E c \in CoroId : DestroyTask(c)

SpecSched == InitRegistry /\ [][NextSched]_vars

\* C19: Get() returns only when its task has reached completion, and it
\* raises the deadlock error exactly when it asks the scheduler for a step
\* while the queue is empty and the task is not done.
C19_GetReturnsDoneThrowsOnEmptyQueue ==
    [][/\ (get'.phase = "returned" /\ get.phase # "returned") =>
             /\ get.phase = "pumping"
             /\ get'.task = get.task
             /\ coro'[get.task].status = "done"
       /\ (get'.phase = "threw" /\ get.phase # "threw") <=>
             /\ get.phase = "pumping"
             /\ queue = <<>>
             /\ coro[get.task].status # "done"]_vars

\* Get() on a coroutine that waits for something nothing delivers: it was
\* resumed once, the queue is empty, and the error is raised
C19_Witness ==
    /\ get.phase = "threw"
    /\ coro[get.task].fn = "suspend_always"
    /\ coro[get.task].status = "suspended"
    /\ coro[get.task].at = 2
    /\ queue = <<>>

\* C20: the entries of the queue stand in the order they were enqueued in,
\* and every step of the scheduler takes the one enqueued first: it resumes
\* its handle, unless the coroutine has finished by then.
C20_ResumedInEnqueueOrder ==
    /\ \A i \in 1..Len(queue) : queue[i].rank = i
    /\ schedEvent.op \in {"resume", "skip"} => schedEvent.rank = 1
    /\ schedEvent.op = "skip" => schedEvent.done
    /\ schedEvent.op = "resume" => ~schedEvent.done

\* a handle was resumed while two entries wait, at least one of them
\* enqueued before the step and after the entry just taken
C20_Witness ==
    /\ schedEvent.op = "resume"
    /\ Len(queue) >= 2
    /\ \E i \in 1..Len(queue) : queue[i].handle # schedEvent.handle


(***************************************************************************)
(* The await specification: as the scheduler specification, for a thread   *)
(* whose code hands a suspended coroutine to the scheduler only while no   *)
(* queue entry names it and it awaits no Task.                             *)
(***************************************************************************)
\* the coroutine is suspended where only the thread's code can resume it
Unscheduled(c) ==
    /\ coro[c].child = 0
    /\ \A i \in 1..Len(queue) : queue[i].handle # c

NextAwait ==
    \/ \E fn \in UserCoroutine : CreateTask(fn)
    \/ \E c \in CoroId : Unscheduled(c) /\ Schedule(c)
    \/ RunTaskSchedulerOnce
    \/ \E c \in CoroId : Unscheduled(c) /\ GetStart(c)
    \/ GetStep
    \/ \E c \in CoroId : DestroyTask(c)

SpecAwait == InitRegistry /\ [][NextAwait]_vars

\* C21: every coroutine a scheduler step runs, the one taken from the queue
\* and the continuations resumed inline after it, runs under the inject
\* state that was active when it suspended or when it was scheduled, and
\* after the step the active-state variable is what it was before it.
C21_StateReattachedAtResume ==
    /\ \A i \in 1..Len(schedEvent.resumes) :
          LET r == schedEvent.resumes[i]
          IN  r.under \in ({r.suspended, r.scheduled} \ {"null"})
    /\ schedEvent.after = schedEvent.before

\* one step run from code where no state is set: a coroutine finished under
\* the state of a lease and its parent, suspended under that state, went on
\* inline, then finished itself
C21_Witness ==
    /\ schedEvent.op = "resume"
    /\ schedEvent.before = "unset"
    /\ Len(schedEvent.resumes) = 2
    /\ schedEvent.resumes[1].under \notin {"ambient", "null"}
    /\ schedEvent.resumes[2].suspended = schedEvent.resumes[1].under
    /\ schedEvent.resumes[2].scheduled = "null"
    /\ schedEvent.resumes[2].awaited = schedEvent.resumes[1].handle


\* the queue entries that name the coroutine
EntriesOf(c) == {i \in 1..Len(queue) : queue[i].handle = c}

FindInStack(stk, ctx) ==
    IF \E i \in 1..Len(stk) : stk[i] = ctx
    THEN CHOOSE i \in 1..Len(stk) : stk[i] = ctx /\ \A j \in 1..(i - 1) : stk[j] # ctx
    ELSE 0

\* a teardown that takes its frame for the top of the stack: pop_back
EraseBack(stk, ctx) == SubSeq(stk, 1, Len(stk) - 1)
\* the erase of ~InjectContextLease: the frame is removed wherever it is
EraseFrame(stk, ctx) ==
    LET i == FindInStack(stk, ctx)
    IN  IF i = 0 THEN stk
        ELSE SubSeq(stk, 1, i - 1) \o SubSeq(stk, i + 1, Len(stk))

\* InjectContextLease(state, track_inject_call_depth) constructed at address a
LeaseAcquire(a, track) ==
    /\ leases[a].status = "none"
    /\ leases' = [leases EXCEPT ![a] = [status |-> "live", track |-> track,
                                        parent |-> Last(contextStack)]]
    /\ contextStack' = Append(contextStack, a)
    /\ injectCallDepth' = IF track THEN injectCallDepth + 1 ELSE injectCallDepth
    /\ acquired' = Append(acquired, a)
    /\ UNCHANGED <<hookVars, diVars, asyncVars, schedVars, failVars, nestVars, pipelineVars, exitVars, crossVars, resumeVars>>

\* InjectContextLease(InjectContextLease&& rhs) constructed at address b from
\* the lease at a: the stack entry and the parent links of the frames on the
\* stack that name rhs.local_ are patched; rhs is left inactive
LeaseMove(a, b) ==
    /\ leases[a].status \in {"live", "moved"}
    /\ leases[b].status = "none"
    /\ IF leases[a].status = "live"
       THEN /\ contextStack' =
                  LET i == FindInStack(contextStack, a)
                  IN  IF i = 0 THEN contextStack
                      ELSE [contextStack EXCEPT ![i] = b]
            /\ leases' = [c \in LeaseAddr |->
                  IF c = b THEN leases[a]
                  ELSE IF c = a THEN [leases[a] EXCEPT !.status = "moved", !.parent = Null]
                  ELSE IF FindInStack(contextStack, c) # 0 /\ leases[c].parent = a
                  THEN [leases[c] EXCEPT !.parent = b]
                  ELSE leases[c]]
            /\ acquired' = [i \in 1..Len(acquired) |->
                               IF acquired[i] = a THEN b ELSE acquired[i]]
       ELSE /\ leases' = [leases EXCEPT ![b] = leases[a], ![a].parent = Null]
            /\ UNCHANGED <<contextStack, acquired>>
    /\ UNCHANGED injectCallDepth
    /\ UNCHANGED <<hookVars, diVars, asyncVars, schedVars, failVars, nestVars, pipelineVars, exitVars, crossVars, resumeVars>>

\* ~InjectContextLease of the lease at a; its storage is free afterwards
LeaseDestroy(a) ==
    /\ leases[a].status \in {"live", "moved"}
    /\ IF leases[a].status = "live"
       THEN /\ contextStack' =
                  LET stk == EraseFrame(contextStack, a)
                  IN  IF stk = <<>> THEN <<RootContext>> ELSE stk
            /\ injectCallDepth' =
                  IF leases[a].track /\ injectCallDepth > 0
                  THEN injectCallDepth - 1 ELSE injectCallDepth
            /\ acquired' = SelectSeq(acquired, LAMBDA c : c # a)
       ELSE UNCHANGED <<contextStack, injectCallDepth, acquired>>
    /\ leases' = [leases EXCEPT ![a] = NoLease]
    /\ UNCHANGED <<hookVars, diVars, asyncVars, schedVars, failVars, nestVars, pipelineVars, exitVars, crossVars, resumeVars>>

NextLease ==
    \/ \E a \in LeaseAddr, track \in BOOLEAN : LeaseAcquire(a, track)
    \/ \E a, b \in LeaseAddr : LeaseMove(a, b)
    \/ \E a \in LeaseAddr : LeaseDestroy(a)

SpecLease == InitRegistry /\ [][NextLease]_vars

\* C23: the context stack is the root followed by the frames of the live
\* leases in the order of their acquisition, a moved lease standing where
\* the lease it was moved from stood; no other address is on it; and
\* inject_call_depth counts the live leases that track the depth.
C23_StackIsRootThenLiveLeases ==
    /\ contextStack # <<>>
    /\ contextStack = <<RootContext>> \o acquired
    /\ \A i \in 1..Len(acquired) : leases[acquired[i]].status = "live"
    /\ \A a \in LeaseAddr :
          leases[a].status = "live" => \E i \in 1..Len(acquired) : acquired[i] = a
    /\ injectCallDepth =
          Cardinality({a \in LeaseAddr : leases[a].status = "live" /\ leases[a].track})

\* a lease acquired first was destroyed while two acquired after it live,
\* one of them moved since (its moved-from object still exists) and not
\* tracking the depth
C23_Witness ==
    /\ Len(contextStack) = 3
    /\ \E a \in LeaseAddr : leases[a].status = "moved"
    /\ leases[contextStack[2]].parent \notin {RootContext, Null}
    /\ leases[leases[contextStack[2]].parent].status # "live"
    /\ ~leases[contextStack[3]].track
    /\ injectCallDepth = 1


(***************************************************************************)
(* Calls of an injected function whose arguments are passed by the caller  *)
(* or left to their Depends defaults, and the failure policy a resolution  *)
(* that fails is routed through.                                           *)
(***************************************************************************)
\* DependsPointerMarker<T>(): the address of a thread_local int, never null
DependsPointerMarker == NumValues + MaxHeap + 2
\* DependsReferenceMarker<T&>(): the address of the thread_local marker object
DependsReferenceMarker == NumValues + MaxHeap + 3

\* what the default-argument metadata of a parameter holds: nothing, the
\* marker of Depends(), the pointer a factory returned, or a factory's nullptr
ArgMeta == {"none", "Depends", "factory", "nullfactory"}

\* one argument of a call: the declared parameter type, the value the caller
\* passed (a pointer value, or the address a reference is bound to), the
\* metadata of the parameter, whether its type is default-constructible and
\* whether an explicit value is registered for it. No reference is null, and
\* a type that is not default-constructible has no reference marker.
CallArg ==
    {a \in [declared : {"pointer", "reference"},
            value : {Null, StaticObj, DependsPointerMarker, DependsReferenceMarker},
            meta : ArgMeta, constructible : BOOLEAN, explicit : BOOLEAN] :
        /\ a.declared = "pointer" => a.value # DependsReferenceMarker
        /\ a.declared = "reference" => a.value \notin {Null, DependsPointerMarker}
        /\ (a.declared = "reference" /\ ~a.constructible) => a.value = StaticObj}

\* a predicate that takes the null pointer for the marker too
IsNullOrPlaceholder(declared, value) ==
    IF declared = "reference" THEN value = DependsReferenceMarker
    ELSE value = DependsPointerMarker \/ value = Null
\* IsDependsPlaceholder<T>: the address of a reference, or the value of a
\* pointer, is the marker's
IsDependsPlaceholder(declared, value) ==
    IF declared = "reference" THEN value = DependsReferenceMarker
    ELSE value = DependsPointerMarker

\* a failure handler that returns to its caller under the Callback policy
HandleInjectFailureReturning(pol, cb, code) ==
    [callbacks |-> IF cb THEN 1 ELSE 0,
     outcome |-> IF pol = "Throw" THEN "InjectException"
                 ELSE IF pol = "Callback" THEN "returned" ELSE "terminate",
     code |-> code]
\* HandleInjectFailure: the callback, if one is set, is called; then Throw
\* throws InjectException(error), Callback and Terminate call std::terminate
HandleInjectFailure(pol, cb, code) ==
    [callbacks |-> IF cb THEN 1 ELSE 0,
     outcome |-> IF pol = "Throw" THEN "InjectException" ELSE "terminate",
     code |-> code]

\* TryResolveDefaultArgForParam on the first context of a call chain: no
\* metadata, no resolution; an explicit value wins; Depends() takes a
\* default-constructed object if the type has one; Depends(factory) takes
\* the pointer the factory returned unless it is null
TryResolveDefaultArgForParam(a) ==
    CASE a.meta = "none" -> NullOpt
      [] a.explicit -> Some(1)
      [] a.meta = "Depends" -> IF a.constructible THEN Some(NumValues + 2) ELSE NullOpt
      [] a.meta = "factory" -> Some(StaticObj)
      [] OTHER -> NullOpt

Returned(v) == [callbacks |-> 0, outcome |-> "returned", code |-> "none", value |-> v,
                resolved |-> FALSE]
Failed(h) == [callbacks |-> h.callbacks, outcome |-> h.outcome, code |-> h.code,
              value |-> Null, resolved |-> FALSE]

\* the marker lookup of IsDependsPlaceholder: DependsReferenceMarker fails
\* with InvalidPlaceholder for a type that is not default-constructible
MarkerFails(a) == a.declared = "reference" /\ ~a.constructible

\* ResolveOne<I>: an argument that is not the placeholder stays as it is;
\* the placeholder is resolved (ResolveArg, ResolveArgAsyncPlaceholder and
\* Get()), and a resolution that fails goes to FailInject
ResolveOne(a, pol, cb) ==
    IF MarkerFails(a)
    THEN Failed(HandleInjectFailure(pol, cb, "InvalidPlaceholder"))
    ELSE IF ~IsDependsPlaceholder(a.declared, a.value)
    THEN Returned(a.value)
    ELSE LET r == TryResolveDefaultArgForParam(a)
         IN  IF r.has THEN [Returned(r.value) EXCEPT !.resolved = TRUE]
             ELSE Failed(HandleInjectFailure(pol, cb, "MissingDependency"))

\* HasDependsPlaceholderInSlots: (... || HasDependsPlaceholderOne<I>(slots))
RECURSIVE HasDependsPlaceholderInSlots(_, _)
HasDependsPlaceholderInSlots(args, i) ==
    IF i > Len(args) THEN "no"
    ELSE IF MarkerFails(args[i]) THEN "fails"
    ELSE IF IsDependsPlaceholder(args[i].declared, args[i].value) THEN "yes"
    ELSE HasDependsPlaceholderInSlots(args, i + 1)

\* ResolveAllSlotsImpl: (ResolveOne<I>(slots), ...), left to right; an
\* exception or std::terminate ends it
RECURSIVE ResolveAllSlotsImpl(_, _, _, _, _)
ResolveAllSlotsImpl(args, i, pol, cb, acc) ==
    IF i > Len(args) THEN acc
    ELSE LET r == ResolveOne(args[i], pol, cb)
         IN  IF r.outcome # "returned"
             THEN [acc EXCEPT !.callbacks = acc.callbacks + r.callbacks,
                              !.outcome = r.outcome, !.code = r.code, !.index = i]
             ELSE ResolveAllSlotsImpl(args, i + 1, pol, cb,
                      [acc EXCEPT !.callbacks = acc.callbacks + r.callbacks,
                                  !.passed = Append(acc.passed, r.value),
                                  !.resolved = IF r.resolved THEN acc.resolved \cup {i}
                                               ELSE acc.resolved])

\* ResolveAllSlots: a Task-returning target whose arguments hold no
\* placeholder skips the resolver loop
ResolveAllSlots(args, isTask, pol, cb) ==
    LET start == [callbacks |-> 0, outcome |-> "returned", code |-> "none",
                  index |-> 0, resolved |-> {}, passed |-> <<>>]
        has == HasDependsPlaceholderInSlots(args, 1)
    IN  IF isTask /\ has = "no"
        THEN [start EXCEPT !.passed = [i \in 1..Len(args) |-> args[i].value]]
        ELSE ResolveAllSlotsImpl(args, 1, pol, cb, start)

\* SetInjectFailPolicy, between two calls
SetInjectFailPolicy(p) ==
    /\ callEvent.outcome # "terminate"
    /\ injectFailPolicy' = p
    /\ callEvent' = NoCallEvent
    /\ UNCHANGED injectErrorCallback
    /\ UNCHANGED <<hookVars, diVars, asyncVars, schedVars, leaseVars, nestVars, pipelineVars, exitVars, crossVars, resumeVars>>

\* SetInjectErrorCallback, between two calls
SetInjectErrorCallback(cb) ==
    /\ callEvent.outcome # "terminate"
    /\ injectErrorCallback' = cb
    /\ callEvent' = NoCallEvent
    /\ UNCHANGED injectFailPolicy
    /\ UNCHANGED <<hookVars, diVars, asyncVars, schedVars, leaseVars, nestVars, pipelineVars, exitVars, crossVars, resumeVars>>

\* the caller evaluates the next argument of a call: an expression of its
\* own, or the parameter's default argument
EvaluateArg(a) ==
    /\ callEvent.outcome # "terminate"
    /\ callEvent.op = "args" => Len(callEvent.args) < MaxArgs
    /\ callEvent' = [NoCallEvent EXCEPT
                        !.op = "args",
                        !.args = IF callEvent.op = "args" THEN Append(callEvent.args, a)
                                 ELSE <<a>>]
    /\ UNCHANGED <<injectFailPolicy, injectErrorCallback>>
    /\ UNCHANGED <<hookVars, diVars, asyncVars, schedVars, leaseVars, nestVars, pipelineVars, exitVars, crossVars, resumeVars>>

\* the call of the injected function: Dispatch runs the inject decorator's
\* BeforeCallSlot, which resolves the slots, and calls the original with
\* the slots' values only when BeforeCallSlot came back
CallInjected(isTask) ==
    /\ callEvent.op = "args"
    /\ \E r \in {ResolveAllSlots(callEvent.args, isTask, injectFailPolicy,
                                  injectErrorCallback)} :
          callEvent' = [op |-> "call", isTask |-> isTask, args |-> callEvent.args,
                        policy |-> injectFailPolicy,
                        callbackSet |-> injectErrorCallback,
                        callbacks |-> r.callbacks, outcome |-> r.outcome,
                        code |-> r.code, index |-> r.index, resolved |-> r.resolved,
                        originalInvoked |-> (r.outcome = "returned"),
                        passed |-> IF r.outcome = "returned" THEN r.passed ELSE <<>>]
    /\ UNCHANGED <<injectFailPolicy, injectErrorCallback>>
    /\ UNCHANGED <<hookVars, diVars, asyncVars, schedVars, leaseVars, nestVars, pipelineVars, exitVars, crossVars, resumeVars>>

NextFail ==
    \/ \E p \in InjectFailPolicy : SetInjectFailPolicy(p)
    \/ \E cb \in BOOLEAN : SetInjectErrorCallback(cb)
    \/ \E a \in CallArg : EvaluateArg(a)
    \/ \E isTask \in BOOLEAN : CallInjected(isTask)

SpecFail == InitRegistry /\ [][NextFail]_vars

\* the placeholder of the call's argument i cannot be resolved
Unresolvable(a) ==
    /\ IsDependsPlaceholder(a.declared, a.value)
    /\ ~a.explicit
    /\ \/ a.meta \in {"none", "nullfactory"}
       \/ a.meta = "Depends" /\ ~a.constructible

\* C24: a call with a placeholder argument that cannot be resolved does not
\* invoke the original; under Throw an InjectException carrying the error
\* leaves the call, under Terminate and Callback the process is terminated;
\* the error callback, if one is set, has been called exactly once.
C24_UnresolvedPlaceholderFailsByPolicy ==
    (callEvent.op = "call" /\ \E i \in 1..Len(callEvent.args) : Unresolvable(callEvent.args[i]))
        => /\ ~callEvent.originalInvoked
           /\ callEvent.policy = "Throw"
                 => callEvent.outcome = "InjectException" /\ callEvent.code # "none"
           /\ callEvent.policy \in {"Terminate", "Callback"}
                 => callEvent.outcome = "terminate"
           /\ callEvent.callbacks = (IF callEvent.callbackSet THEN 1 ELSE 0)

C24_Witness ==
    /\ callEvent.op = "call"
    /\ Len(callEvent.args) = 2
    /\ ~Unresolvable(callEvent.args[1])
    /\ IsDependsPlaceholder(callEvent.args[1].declared, callEvent.args[1].value)
    /\ Unresolvable(callEvent.args[2])
    /\ callEvent.policy = "Throw"
    /\ callEvent.callbackSet
    /\ callEvent.outcome = "InjectException"
    /\ callEvent.code = "MissingDependency"
    /\ callEvent.index = 2
    /\ callEvent.callbacks = 1
    /\ ~callEvent.originalInvoked


(***************************************************************************)
(* Failed install attempts and the failure policy of the hook layer.       *)
(***************************************************************************)
\* the step ends thread t's InstallAt at one of its three failure returns;
\* the error code of that return
FailedInstallCode(t) ==
    CASE pc[t] = "install" /\ ~AlreadyInstalled(installed) /\ targetPtr = Null
            -> "InvalidInstallArgument"
      [] pc[t] = "inst_create" /\ pc'[t] \notin {"inst_create", "inst_enable"}
            -> "CreateHookFailed"
      [] pc[t] = "inst_enable" /\ pc'[t] \notin {"inst_enable", "inst_store"}
            -> "EnableHookFailed"
      [] OTHER -> "None"

\* C25: a failed install attempt leaves the error of the failed step in the
\* calling thread's last-error slot under every policy and calls the error
\* callback once if one is set; Ignore and Callback make InstallAt return
\* false, Throw raises HookException, Terminate ends the process.
C25_FailedInstallReportsByPolicy ==
    [][\A t \in Thread :
          (pc'[t] # pc[t] /\ FailedInstallCode(t) # "None")
              => /\ lastError'[t] = FailedInstallCode(t)
                 /\ event'.code = FailedInstallCode(t)
                 /\ event'.callback = callbackSet
                 /\ policy \in {"Ignore", "Callback"} => (event'.inst = "false" /\ ~terminated')
                 /\ policy = "Throw" => (event'.inst = "throw" /\ ~terminated')
                 /\ policy = "Terminate" => (event'.inst = "terminate" /\ terminated')]_vars

C25_Witness ==
    /\ policy = "Callback"
    /\ callbackSet
    /\ event.code = "CreateHookFailed"
    /\ event.callback
    /\ event.inst = "false"
    /\ lastError[2] = "CreateHookFailed"
    /\ lastError[1] = "InvalidInstallArgument" \/ lastError[1] = "None"
    /\ ~terminated


(***************************************************************************)
(* Re-entrant dispatch: the hook is installed, threads register and        *)
(* unregister decorators and call the hooked function, and the callbacks   *)
(* and the original of a running Dispatch do the same on the same          *)
(* pipeline.  A frame's stage names the user code that is running in it:   *)
(* the BeforeCallSlot of its node cur, the original, or the AfterCallSlot  *)
(* of invoked[idx].  The frames between two arenas are not modelled: a     *)
(* node may ask for a context larger than they are.                        *)
(***************************************************************************)
\* a mutex that admits every thread
AnyoneLocks(owner, t) == TRUE
\* a mutex that its holder cannot lock again
NonRecursiveLock(owner, t) == owner = 0
\* std::recursive_mutex::lock returns at once: free, or held by the caller
CanLock(owner, t) == owner = 0 \/ owner = t

ChainNodes(c) == [i \in 1..Len(c) |-> c[i].node]
IndexOfNode(c, n) == CHOOSE i \in 1..Len(c) : c[i].node = n

\* an arena handed out at the same address for every Dispatch
SharedArena(sp, space) == StackTop - AlignUp(space, MaxAlign)
\* CPPBM_HOOK_ALLOCA(space): the block below the stack pointer
Alloca(sp, space) == sp - AlignUp(space, MaxAlign)

\* slot_mem and CallContext(slot_mem, it->size) of chain entry e
SlotMem(arena, e) ==
    IF arena = Null \/ e.size = 0 THEN [mem |-> Null, size |-> e.size]
    ELSE [mem |-> arena + e.offset, size |-> e.size]

\* the bytes of a context
CellsOf(ctx) ==
    IF ctx.mem = Null THEN {} ELSE {a \in Addr : a >= ctx.mem /\ a < ctx.mem + ctx.size}
\* what the BeforeCallSlot of a node constructs in its context
MarkOf(depth, n) == 10 * depth + n
WriteContext(mem, ctx, mark) ==
    [a \in Addr |-> IF a \in CellsOf(ctx) THEN mark ELSE mem[a]]

NoNestFrame ==
    [stage |-> "none", plain |-> FALSE, cur |-> Null, itValid |-> TRUE, invoked |-> <<>>,
     idx |-> 0, proceed |-> TRUE, arena |-> Null, space |-> 0, sp |-> StackTop,
     calls |-> 0, mem0 |-> <<>>]

\* invoked.emplace_back() for chain entry e, and the call of its BeforeCallSlot
Emplace(f, e, depth) ==
    [f EXCEPT !.stage = "inBefore", !.cur = e.node, !.itValid = TRUE,
              !.invoked = Append(@, [node |-> e.node, ctx |-> SlotMem(f.arena, e),
                                     mark |-> MarkOf(depth, e.node)])]

InUserCode(t) == chainOwner = t /\ nest # <<>> /\ nestEvent.op # "crash"
Top == Last(nest)
ReplaceTop(f) == [nest EXCEPT ![Len(nest)] = f]
\* the call is made from outside the pipeline, or by user code of a
\* Dispatch whose outermost Dispatch has calls left
HasCallsLeft == nest # <<>> => nest[1].calls < MaxCalls
\* the stack of Dispatch frames after one more call from user code
Called(stk) ==
    IF stk = <<>> THEN stk ELSE [stk EXCEPT ![1].calls = @ + 1]

\* RegisterDecorator(node): push_back under chain_mtx_, then InstallAt, which
\* finds the hook installed
NestRegister(t, n) ==
    /\ nestEvent.op # "crash"
    /\ CanLock(chainOwner, t)
    /\ HasCallsLeft
    /\ nest' = Called(nest)
    /\ chain' = PushBack(chain, n)
    /\ layoutDirty' = (layoutDirty \/ ~InChain(chain, n))
    /\ nestEvent' = [NoNestEvent EXCEPT !.op = "register", !.thread = t, !.node = n,
                                        !.depth = Len(nest)]
    /\ UNCHANGED <<arenaBytes, chainOwner, installed, original, mtx, targetPtr>>
    /\ UNCHANGED <<backendVars, errVars, threadVars>>
    /\ UNCHANGED <<lockDepth, stackMem>>
    /\ UNCHANGED <<diVars, asyncVars, schedVars, leaseVars, failVars, pipelineVars, exitVars, crossVars, resumeVars>>

\* UnregisterDecorator(node): remove_if under chain_mtx_; the iterator of a
\* before loop that stands on the erased entry is invalidated
NestUnregister(t, n) ==
    /\ nestEvent.op # "crash"
    /\ CanLock(chainOwner, t)
    /\ HasCallsLeft
    /\ chain' = RemoveNode(chain, n)
    /\ layoutDirty' = (layoutDirty \/ Len(chain') # Len(chain))
    /\ nest' = [i \in 1..Len(nest) |->
                    IF Called(nest)[i].stage = "inBefore" /\ nest[i].cur = n
                    THEN [Called(nest)[i] EXCEPT !.itValid = FALSE] ELSE Called(nest)[i]]
    /\ nestEvent' = [NoNestEvent EXCEPT !.op = "unregister", !.thread = t, !.node = n,
                                        !.depth = Len(nest)]
    /\ UNCHANGED <<arenaBytes, chainOwner, installed, original, mtx, targetPtr>>
    /\ UNCHANGED <<backendVars, errVars, threadVars>>
    /\ UNCHANGED <<lockDepth, stackMem>>
    /\ UNCHANGED <<diVars, asyncVars, schedVars, leaseVars, failVars, pipelineVars, exitVars, crossVars, resumeVars>>

\* a call of the hooked function reaches Dispatch: lock, CallOriginal for an
\* empty chain, else RebuildLayoutIfNeeded, the arena, and the first node
NestDispatchEnter(t) ==
    /\ nestEvent.op # "crash"
    /\ CanLock(chainOwner, t)
    /\ HasCallsLeft
    /\ Len(nest) < MaxNest
    /\ chainOwner' = t
    /\ lockDepth' = lockDepth + 1
    /\ LET depth == Len(nest) + 1
           sp == IF nest = <<>> THEN StackTop ELSE Top.sp
           c1 == IF layoutDirty THEN LayoutFrom(chain, 0) ELSE chain
           bytes == IF layoutDirty THEN ArenaEnd(chain, 0) ELSE arenaBytes
           space == IF bytes > 0 THEN bytes + MaxAlign ELSE 0
           arena == IF bytes > 0 THEN Alloca(sp, space) ELSE Null
           f0 == [NoNestFrame EXCEPT !.arena = arena, !.space = space,
                                     !.sp = IF bytes > 0 THEN arena ELSE sp,
                                     !.mem0 = stackMem]
       IN  IF chain = <<>>
           THEN /\ nest' = Append(Called(nest), [f0 EXCEPT !.stage = "inOriginal", !.plain = TRUE,
                                                        !.arena = Null, !.space = 0, !.sp = sp])
                /\ UNCHANGED <<chain, layoutDirty, arenaBytes, stackMem>>
           ELSE /\ chain' = c1
                /\ arenaBytes' = bytes
                /\ layoutDirty' = FALSE
                /\ \E f \in {Emplace(f0, c1[1], depth)} :
                      /\ nest' = Append(Called(nest), f)
                      /\ stackMem' = WriteContext(stackMem, Last(f.invoked).ctx,
                                                  Last(f.invoked).mark)
    /\ nestEvent' = [NoNestEvent EXCEPT !.op = "enter", !.thread = t,
                                        !.depth = Len(nest) + 1]
    /\ UNCHANGED <<installed, original, mtx, targetPtr>>
    /\ UNCHANGED <<backendVars, errVars, threadVars>>
    /\ UNCHANGED <<diVars, asyncVars, schedVars, leaseVars, failVars, pipelineVars, exitVars, crossVars, resumeVars>>

\* the process dies on the read of a freed list node
ItCrash == Null - 1
\* where ++it takes the before loop: the entry after the current one, the
\* end of the chain, and for an invalidated iterator whatever the freed
\* list node happens to hold
NextIt(c, f) ==
    IF f.itValid
    THEN IF IndexOfNode(c, f.cur) < Len(c)
         THEN {c[IndexOfNode(c, f.cur) + 1].node} ELSE {Null}
    ELSE {Null, ItCrash} \cup {c[i].node : i \in 1..Len(c)}

\* BeforeCallSlot returns r: break on false, else ++it and the next node's
\* BeforeCallSlot, or the original after the last node
NestBeforeReturn(t, r) ==
    /\ InUserCode(t)
    /\ Top.stage = "inBefore"
    /\ IF ~r
       THEN /\ nest' = ReplaceTop([Top EXCEPT !.proceed = FALSE, !.stage = "inAfter",
                                                !.idx = Len(Top.invoked)])
            /\ nestEvent' = [NoNestEvent EXCEPT !.op = "veto", !.thread = t,
                                                !.depth = Len(nest)]
            /\ UNCHANGED stackMem
       ELSE \E nx \in NextIt(chain, Top) :
              IF nx = ItCrash
              THEN /\ nestEvent' = [NoNestEvent EXCEPT !.op = "crash", !.thread = t,
                                                       !.depth = Len(nest)]
                   /\ UNCHANGED <<nest, stackMem>>
              ELSE IF nx = Null
              THEN /\ nest' = ReplaceTop([Top EXCEPT !.stage = "inOriginal"])
                   /\ nestEvent' = [NoNestEvent EXCEPT !.op = "original", !.thread = t,
                                                       !.depth = Len(nest)]
                   /\ UNCHANGED stackMem
              ELSE \E f \in {Emplace(Top, chain[IndexOfNode(chain, nx)], Len(nest))} :
                     /\ nest' = ReplaceTop(f)
                     /\ stackMem' = WriteContext(stackMem, Last(f.invoked).ctx,
                                                 Last(f.invoked).mark)
                     /\ nestEvent' = [NoNestEvent EXCEPT !.op = "before", !.thread = t,
                                                         !.node = nx, !.depth = Len(nest)]
    /\ UNCHANGED <<pipeVars, backendVars, errVars, threadVars, lockDepth>>
    /\ UNCHANGED <<diVars, asyncVars, schedVars, leaseVars, failVars, pipelineVars, exitVars, crossVars, resumeVars>>

\* Dispatch returns: its frame and arena are gone, the lock guard unlocks
LeaveDispatch(t) ==
    /\ nest' = SubSeq(nest, 1, Len(nest) - 1)
    /\ lockDepth' = lockDepth - 1
    /\ chainOwner' = IF lockDepth = 1 THEN 0 ELSE t
    /\ stackMem' = [a \in Addr |->
                      IF Len(nest) = 1 \/ a < nest[Len(nest) - 1].sp
                      THEN 0 ELSE stackMem[a]]
    /\ nestEvent' = [NoNestEvent EXCEPT !.op = "return", !.thread = t,
                                        !.depth = Len(nest), !.mem0 = Top.mem0]
    /\ UNCHANGED <<chain, layoutDirty, arenaBytes, installed, original, mtx, targetPtr>>

\* the original returns: the after loop starts at the last invoked node
NestOriginalReturn(t) ==
    /\ InUserCode(t)
    /\ Top.stage = "inOriginal"
    /\ IF Top.plain
       THEN LeaveDispatch(t)
       ELSE /\ nest' = ReplaceTop([Top EXCEPT !.stage = "inAfter", !.idx = Len(Top.invoked)])
            /\ nestEvent' = [NoNestEvent EXCEPT !.op = "after", !.thread = t,
                                                !.node = Last(Top.invoked).node,
                                                !.depth = Len(nest)]
            /\ UNCHANGED <<pipeVars, lockDepth, stackMem>>
    /\ UNCHANGED <<backendVars, errVars, threadVars>>
    /\ UNCHANGED <<diVars, asyncVars, schedVars, leaseVars, failVars, pipelineVars, exitVars, crossVars, resumeVars>>

\* AfterCallSlot returns: the next node of invoked in reverse, or the return
NestAfterReturn(t) ==
    /\ InUserCode(t)
    /\ Top.stage = "inAfter"
    /\ IF Top.idx = 1
       THEN LeaveDispatch(t)
       ELSE /\ nest' = ReplaceTop([Top EXCEPT !.idx = Top.idx - 1])
            /\ nestEvent' = [NoNestEvent EXCEPT !.op = "after", !.thread = t,
                                                !.node = Top.invoked[Top.idx - 1].node,
                                                !.depth = Len(nest)]
            /\ UNCHANGED <<pipeVars, lockDepth, stackMem>>
    /\ UNCHANGED <<backendVars, errVars, threadVars>>
    /\ UNCHANGED <<diVars, asyncVars, schedVars, leaseVars, failVars, pipelineVars, exitVars, crossVars, resumeVars>>

\* the hook was installed by an earlier registration, the chain is empty
\* again, and no thread is inside the pipeline
InitInstalled ==
    /\ chain = <<>>
    /\ layoutDirty = FALSE
    /\ arenaBytes = 0
    /\ chainOwner = 0
    /\ installed = TRUE
    /\ original = Trampoline
    /\ mtx = 0
    /\ targetPtr = 1
    /\ backendHooks = 1
    /\ enabled = TRUE
    /\ policy = "Ignore"
    /\ callbackSet = FALSE
    /\ terminated = FALSE
    /\ pc = [t \in Thread |-> "idle"]
    /\ via = [t \in Thread |-> "none"]
    /\ opNode = [t \in Thread |-> Null]
    /\ instLocal = [t \in Thread |-> Null]
    /\ lastError = [t \in Thread |-> "None"]
    /\ event = NoEvent
    /\ disp = NoFrame
    /\ regOrder = <<>>
    /\ InitDI
    /\ InitAsync

NextNest ==
    \/ \E t \in Thread, n \in NestNode : NestRegister(t, n)
    \/ \E t \in Thread, n \in NestNode : NestUnregister(t, n)
    \/ \E t \in Thread : NestDispatchEnter(t)
    \/ \E t \in Thread, r \in BOOLEAN : NestBeforeReturn(t, r)
    \/ \E t \in Thread : NestOriginalReturn(t)
    \/ \E t \in Thread : NestAfterReturn(t)

SpecNest == InitInstalled /\ [][NextNest]_vars

\* C26: while a Dispatch is in progress, from its first BeforeCallSlot to
\* its last AfterCallSlot, no RegisterDecorator or UnregisterDecorator of
\* another thread changes the chain: a step that changes it is a step of the
\* dispatching thread.
C26_OtherThreadsWaitForDispatch ==
    [][(nest # <<>> /\ ChainNodes(chain') # ChainNodes(chain))
          => (nestEvent'.thread = chainOwner /\ chainOwner' = chainOwner)]_vars

C26_Witness ==
    /\ chainOwner = 1
    /\ Len(nest) = 1
    /\ Top.stage = "inAfter"
    /\ Top.idx = 1
    /\ Len(Top.invoked) = 2
    /\ ChainNodes(chain) = <<Top.invoked[1].node, Top.invoked[2].node>>
    /\ nestEvent.op = "after"

\* C27: a callback, or the original, running inside a Dispatch can call
\* RegisterDecorator and UnregisterDecorator on the same pipeline from the
\* same thread: the call is not blocked by the lock its Dispatch holds.
C27_CallbackCanRegister ==
    \A t \in Thread :
        (InUserCode(t) /\ HasCallsLeft)
            => \A n \in NestNode : /\ ENABLED NestRegister(t, n)
                                   /\ ENABLED NestUnregister(t, n)

C27_Witness ==
    /\ nest # <<>>
    /\ nestEvent.op = "unregister"
    /\ nestEvent.thread = chainOwner
    /\ nestEvent.depth = 1
    /\ Top.stage = "inBefore"
    /\ ~InChain(chain, nestEvent.node)
    /\ Len(chain) = 2

\* the contexts the Dispatch of frame f has handed to its nodes
ContextsOf(f) == {f.invoked[i].ctx : i \in 1..Len(f.invoked)}
Overlap(a, b) == CellsOf(a) \cap CellsOf(b) # {}

\* C28: a nested Dispatch uses its own arena: none of its node contexts
\* overlaps a node context of an enclosing Dispatch, and when it returns the
\* node contexts of the enclosing dispatches hold what they held when it
\* was entered.
C28_NestedArenaIsItsOwn ==
    /\ \A i \in 1..Len(nest), j \in 1..Len(nest) :
          i < j => \A a \in ContextsOf(nest[i]), b \in ContextsOf(nest[j]) :
                      ~Overlap(a, b)
    /\ (nestEvent.op = "return" /\ nest # <<>>)
          => \A i \in 1..Len(nest) : \A a \in ContextsOf(nest[i]) :
                \A c \in CellsOf(a) : stackMem[c] = nestEvent.mem0[c]

(***************************************************************************)
(* HookPipelineRegistry::GetOrCreate: the pipeline of a target address is  *)
(* looked up, and allocated when absent, under the registry's mutex.       *)
(***************************************************************************)
\* a registry whose mutex never makes anyone wait
RegistryNeverWaits(owner) == TRUE
\* std::mutex::lock returns once the mutex is free
RegistryMtxFree(owner) == owner = 0

\* the address operator new returns: one no pipeline has been given
NewPipeline == CHOOSE i \in PipelineId : \A o \in created : o.id # i

\* std::lock_guard guard{ mtx_ } of a call for target a
GetOrCreateLock(t, a) ==
    /\ getFrame[t].pc = "idle"
    /\ Cardinality(created) < MaxPipelines
    /\ RegistryMtxFree(registryMtx)
    /\ registryMtx' = t
    /\ getFrame' = [getFrame EXCEPT ![t] = [pc |-> "find", target |-> a, obj |-> Null]]
    /\ UNCHANGED <<pipelines, created, returned>>
    /\ UNCHANGED <<hookVars, diVars, asyncVars, schedVars, leaseVars, failVars, nestVars, exitVars, crossVars, resumeVars>>

\* pipelines_.find(target): a hit is the result, a miss goes on to allocate
GetOrCreateFind(t) ==
    /\ getFrame[t].pc = "find"
    /\ LET it == pipelines[getFrame[t].target]
       IN  getFrame' = [getFrame EXCEPT ![t] =
                IF it # Null THEN [@ EXCEPT !.pc = "return", !.obj = it]
                             ELSE [@ EXCEPT !.pc = "new"]]
    /\ UNCHANGED <<pipelines, registryMtx, created, returned>>
    /\ UNCHANGED <<hookVars, diVars, asyncVars, schedVars, leaseVars, failVars, nestVars, exitVars, crossVars, resumeVars>>

\* new PipelineT(ctor_args...)
GetOrCreateNew(t) ==
    /\ getFrame[t].pc = "new"
    /\ created' = created \cup {[id |-> NewPipeline, target |-> getFrame[t].target]}
    /\ getFrame' = [getFrame EXCEPT ![t] = [@ EXCEPT !.pc = "emplace", !.obj = NewPipeline]]
    /\ UNCHANGED <<pipelines, registryMtx, returned>>
    /\ UNCHANGED <<hookVars, diVars, asyncVars, schedVars, leaseVars, failVars, nestVars, exitVars, crossVars, resumeVars>>

\* pipelines_.emplace(target, created): inserts unless the key is present;
\* the call returns *created either way
GetOrCreateEmplace(t) ==
    /\ getFrame[t].pc = "emplace"
    /\ LET a == getFrame[t].target
       IN  pipelines' = IF pipelines[a] = Null
                        THEN [pipelines EXCEPT ![a] = getFrame[t].obj]
                        ELSE pipelines
    /\ getFrame' = [getFrame EXCEPT ![t] = [@ EXCEPT !.pc = "return"]]
    /\ UNCHANGED <<registryMtx, created, returned>>
    /\ UNCHANGED <<hookVars, diVars, asyncVars, schedVars, leaseVars, failVars, nestVars, exitVars, crossVars, resumeVars>>

\* return: the guard's destructor unlocks mtx_ and the caller has its pipeline
GetOrCreateReturn(t) ==
    /\ getFrame[t].pc = "return"
    /\ returned' = returned \cup
           {[thread |-> t, target |-> getFrame[t].target, pipeline |-> getFrame[t].obj]}
    /\ registryMtx' = IF registryMtx = t THEN 0 ELSE registryMtx
    /\ getFrame' = [getFrame EXCEPT ![t] = NoGetFrame]
    /\ UNCHANGED <<pipelines, created>>
    /\ UNCHANGED <<hookVars, diVars, asyncVars, schedVars, leaseVars, failVars, nestVars, exitVars, crossVars, resumeVars>>

NextPipelines ==
    \/ \E t \in Thread, a \in HookTarget : GetOrCreateLock(t, a)
    \/ \E t \in Thread : GetOrCreateFind(t)
    \/ \E t \in Thread : GetOrCreateNew(t)
    \/ \E t \in Thread : GetOrCreateEmplace(t)
    \/ \E t \in Thread : GetOrCreateReturn(t)

SpecPipelines == InitRegistry /\ [][NextPipelines]_vars

\* the pipeline objects allocated for target a
CreatedFor(a) == {o \in created : o.target = a}

\* C29: whatever the interleaving of GetOrCreate calls, at most one pipeline
\* object is ever allocated per target address, exactly one once a call for
\* the target has returned, and every call for the target has returned that
\* object.
C29_OnePipelinePerTarget ==
    \A a \in HookTarget :
        /\ Cardinality(CreatedFor(a)) <= 1
        /\ \A r \in returned :
               r.target = a =>
                   /\ CreatedFor(a) = {[id |-> r.pipeline, target |-> a]}
                   /\ pipelines[a] = r.pipeline

\* both threads have completed calls for both targets
C29_Witness ==
    /\ \A t \in Thread, a \in HookTarget :
           \E r \in returned : r.thread = t /\ r.target = a
    /\ \A a \in HookTarget : Cardinality(CreatedFor(a)) = 1
    /\ \A t \in Thread : getFrame[t].pc = "idle"

(***************************************************************************)
(* Null pointer arguments of injected calls (SpecFail).                    *)
(***************************************************************************)
\* C30: a null pointer passed for a pointer parameter of an injected
\* function is not a placeholder: no resolution is performed for it, no
\* failure is reported for it, and the original, when it is invoked, gets
\* the null pointer; only arguments that hold the marker of Depends() are
\* resolved, and every other argument reaches the original as it was passed.
C30_NullptrIsNoPlaceholder ==
    callEvent.op = "call" =>
        \A i \in 1..Len(callEvent.args) :
            LET a == callEvent.args[i]
            IN  /\ (a.declared = "pointer" /\ a.value = Null)
                      => /\ i \notin callEvent.resolved
                         /\ callEvent.index # i
                         /\ callEvent.originalInvoked => callEvent.passed[i] = Null
                /\ i \in callEvent.resolved
                      => a.value = (IF a.declared = "pointer" THEN DependsPointerMarker
                                    ELSE DependsReferenceMarker)
                /\ (callEvent.originalInvoked /\ i \notin callEvent.resolved)
                      => callEvent.passed[i] = a.value

\* the original ran with a null pointer argument next to a resolved
\* pointer placeholder, the null pointer's parameter having Depends() metadata
C30_Witness ==
    /\ callEvent.op = "call"
    /\ callEvent.originalInvoked
    /\ Len(callEvent.args) = 2
    /\ callEvent.args[1].declared = "pointer"
    /\ callEvent.args[1].value = Null
    /\ callEvent.args[1].meta = "Depends"
    /\ callEvent.args[2].declared = "pointer"
    /\ callEvent.resolved = {2}
    /\ callEvent.passed[1] = Null
    /\ callEvent.passed[2] # DependsPointerMarker

(***************************************************************************)
(* The fast path of Task-returning injected calls (SpecFail).              *)
(***************************************************************************)
\* no argument of the call holds the marker of Depends()
NoPlaceholderPassed(args) ==
    \A i \in 1..Len(args) :
        args[i].value # (IF args[i].declared = "pointer" THEN DependsPointerMarker
                         ELSE DependsReferenceMarker)

\* C31: a call of a Task-returning injected function none of whose arguments
\* is a placeholder runs no resolver: nothing is resolved, no failure is
\* reported, and the original is invoked with the caller's arguments.
C31_NoPlaceholderSkipsResolver ==
    (callEvent.op = "call" /\ callEvent.isTask /\ NoPlaceholderPassed(callEvent.args))
        => /\ callEvent.resolved = {}
           /\ callEvent.callbacks = 0
           /\ callEvent.outcome = "returned"
           /\ callEvent.originalInvoked
           /\ callEvent.passed = [i \in 1..Len(callEvent.args) |-> callEvent.args[i].value]

(***************************************************************************)
(* Callbacks on unregistered nodes (SpecNest).                             *)
(***************************************************************************)
\* this step calls AfterCallSlot on node n: the after loop of the running
\* Dispatch starts, or moves on, and stands on n
AfterCalledOn(n) ==
    /\ nest # <<>>
    /\ Len(nest') = Len(nest)
    /\ Last(nest').stage = "inAfter"
    /\ Top.stage # "inAfter" \/ Last(nest').idx # Top.idx
    /\ Last(nest').invoked[Last(nest').idx].node = n

\* C32: AfterCallSlot is called only on nodes that are registered at the
\* time of the call: a node whose UnregisterDecorator has returned gets no
\* callback from a Dispatch that was in progress on the calling thread.
C32_NoCallbackAfterUnregister ==
    [][\A n \in NestNode :
          AfterCalledOn(n) => \E i \in 1..Len(chain) : chain[i].node = n]_vars

(***************************************************************************)
(* Node contexts and the arena of their Dispatch (SpecNest).               *)
(***************************************************************************)
\* context ctx is empty, or lies inside the arena of Dispatch frame f and
\* starts at a multiple of alignof(std::max_align_t)
InsideArena(f, ctx) ==
    \/ ctx.mem = Null
    \/ /\ f.arena # Null
       /\ ctx.mem >= f.arena
       /\ ctx.mem + ctx.size <= f.arena + f.space
       /\ ctx.mem % MaxAlign = 0

\* C33: in every Dispatch each node's CallContext is empty or a byte range
\* inside the arena allocated by that Dispatch that starts at a multiple of
\* the max_align_t alignment, and the ranges of two nodes of one Dispatch
\* are disjoint.
C33_ContextsInsideOwnArena ==
    \A d \in 1..Len(nest) :
        /\ \A i \in 1..Len(nest[d].invoked) : InsideArena(nest[d], nest[d].invoked[i].ctx)
        /\ \A i \in 1..Len(nest[d].invoked), j \in 1..Len(nest[d].invoked) :
               (i < j /\ nest[d].invoked[i].node # nest[d].invoked[j].node)
                   => ~Overlap(nest[d].invoked[i].ctx, nest[d].invoked[j].ctx)

(***************************************************************************)
(* The original trampoline at dispatch time (SpecDispatch).                *)
(***************************************************************************)
\* C34: a call that reaches Dispatch through the detour finds the original
\* trampoline stored: a dispatch in which no node vetoes has executed the
\* original function, not produced the default value from a null original.
C34_OriginalReadableAtDispatch ==
    (disp.stage = "after" /\ disp.proceed) => disp.orig0 # Null

(***************************************************************************)
(* Parent links of the frames on the context stack (SpecLease).            *)
(***************************************************************************)
\* the contexts FindSlotInChain visits from ctx: ctx, ctx->parent, ... until
\* a context that is not the frame of a live lease
RECURSIVE ParentChain(_, _)
ParentChain(ctx, n) ==
    IF n = 0 \/ ctx \notin LeaseAddr \/ leases[ctx].status # "live" THEN {ctx}
    ELSE {ctx} \cup ParentChain(leases[ctx].parent, n - 1)

\* C35: every context reachable from the context stack by parent links is
\* the root or the frame of a live lease, whatever the order in which
\* leases were acquired, moved and destroyed.
C35_ParentLinksReachLiveFrames ==
    \A i \in 1..Len(contextStack) :
        \A ctx \in ParentChain(contextStack[i], MaxLease) :
            ctx = RootContext \/ (ctx \in LeaseAddr /\ leases[ctx].status = "live")

(***************************************************************************)
(* Injected calls of one thread, returned from or left by an exception.    *)
(* leaseVars hold the thread's reusable top-level InjectContextState; the  *)
(* InjectCallFrame of a call lives in the arena of its Dispatch, whose     *)
(* address is given by the depth of the call.                              *)
(***************************************************************************)
\* AcquireInjectCallStateOwner: the call is top-level when the active state
\* is in no injected call
IsTopLevel == GetActiveStateOwner(activeSlot) = "ambient" \/ injectCallDepth <= 0

\* BeforeCallSlot up to ResolveAllSlots: InitCallFrame constructs the
\* InjectCallFrame in the context: AcquireInjectCallLease (a top-level call
\* resets the reusable state), then the ActiveInjectStateScope
InjectedCallEnter ==
    /\ Len(callStack) < MaxLease
    /\ Len(contextStack) <= MaxLease
    /\ LET a == Len(callStack) + 1
           stack0 == IF IsTopLevel THEN <<RootContext>> ELSE contextStack
           depth0 == IF IsTopLevel THEN 0 ELSE injectCallDepth
           guard == Set(activeSlot, "reusable")
       IN  /\ leases' = [leases EXCEPT ![a] = [status |-> "live", track |-> TRUE,
                                               parent |-> Last(stack0)]]
           /\ contextStack' = Append(stack0, a)
           /\ injectCallDepth' = depth0 + 1
           /\ activeSlot' = guard.slot
           /\ callStack' = Append(callStack,
                  [addr |-> a, token |-> guard.token, top |-> IsTopLevel,
                   slot |-> activeSlot, stack |-> contextStack,
                   depth |-> injectCallDepth])
    /\ exitEvent' = NoExitEvent
    /\ UNCHANGED acquired
    /\ UNCHANGED <<hookVars, diVars, asyncVars, schedVars, failVars, nestVars, pipelineVars, crossVars, resumeVars>>

\* what the call on top of callStack had found when it was made
Pre(f, op) == [op |-> op, addr |-> f.addr, top |-> f.top, slot |-> f.slot,
               stack |-> f.stack, depth |-> f.depth]

\* the original returns and AfterCallSlot runs DestroyCallFrame: the
\* ActiveInjectStateScope restores the variable, the lease leaves the stack
InjectedCallReturn ==
    /\ callStack # <<>>
    /\ LET f == Last(callStack)
       IN  /\ activeSlot' = RestoreFromToken(activeSlot, f.token)
           /\ contextStack' =
                  LET stk == EraseFrame(contextStack, f.addr)
                  IN  IF stk = <<>> THEN <<RootContext>> ELSE stk
           /\ injectCallDepth' = IF injectCallDepth > 0 THEN injectCallDepth - 1
                                 ELSE injectCallDepth
           /\ leases' = [leases EXCEPT ![f.addr] = NoLease]
           /\ exitEvent' = Pre(f, "return")
    /\ callStack' = SubSeq(callStack, 1, Len(callStack) - 1)
    /\ UNCHANGED acquired
    /\ UNCHANGED <<hookVars, diVars, asyncVars, schedVars, failVars, nestVars, pipelineVars, crossVars, resumeVars>>

\* the reasons an exception leaves Dispatch: FailInject under the Throw
\* policy, the original function, another decorator
ThrowSite == {"resolve", "original", "decorator"}

\* an exception leaves the innermost k calls and is caught in the code that
\* made the k-th: Dispatch has no handler, its arena is released with its
\* stack frame, and no destructor runs for the InjectCallFrame in it
InjectedCallThrow(site, k) ==
    /\ k >= 1
    /\ k <= Len(callStack)
    /\ site = "resolve" => injectFailPolicy = "Throw"
    /\ LET f == callStack[Len(callStack) - k + 1]
           gone == {callStack[i].addr : i \in (Len(callStack) - k + 1)..Len(callStack)}
       IN  /\ leases' = [a \in LeaseAddr |->
                            IF a \in gone THEN [leases[a] EXCEPT !.status = "leaked"]
                            ELSE leases[a]]
           /\ exitEvent' = Pre(f, "throw")
    /\ callStack' = SubSeq(callStack, 1, Len(callStack) - k)
    /\ UNCHANGED <<activeSlot, contextStack, injectCallDepth, acquired>>
    /\ UNCHANGED <<hookVars, diVars, asyncVars, schedVars, failVars, nestVars, pipelineVars, crossVars, resumeVars>>

\* SetInjectFailPolicy called by the thread's code
ThrowSetPolicy(p) ==
    /\ injectFailPolicy' = p
    /\ exitEvent' = NoExitEvent
    /\ UNCHANGED <<injectErrorCallback, callEvent>>
    /\ UNCHANGED <<activeSlot, callStack>>
    /\ UNCHANGED <<hookVars, diVars, asyncVars, schedVars, leaseVars, nestVars, pipelineVars, crossVars, resumeVars>>

NextThrow ==
    \/ InjectedCallEnter
    \/ InjectedCallReturn
    \/ \E site \in ThrowSite, k \in 1..MaxLease : InjectedCallThrow(site, k)
    \/ \E p \in InjectFailPolicy : ThrowSetPolicy(p)

SpecThrow == InitRegistry /\ [][NextThrow]_vars

\* C36: after an injected call was left by an exception the inject state is
\* as the call found it: its frame is not on the context stack,
\* inject_call_depth and the active-state variable have their pre-call
\* values, and a call made from the place of a top-level call is top-level.
C36_ExceptionRestoresInjectState ==
    exitEvent.op = "throw" =>
        /\ \A i \in 1..Len(contextStack) : contextStack[i] # exitEvent.addr
        /\ injectCallDepth = exitEvent.depth
        /\ activeSlot = exitEvent.slot
        /\ exitEvent.top => IsTopLevel

\* a top-level call finds the reusable state held by nobody else
TopLevelFindsReusableFree ==
    \A i \in 1..Len(callStack) :
        callStack[i].top => callStack[i].slot = "unset"

(***************************************************************************)
(* Injected functions with two parameters of one slot key: both declared   *)
(* Depends(get_config_owned), or Depends() followed by Depends(false),     *)
(* called in chains with the functions of the test program.                *)
(***************************************************************************)
SameKeyTarget == {"two_owned", "plain_then_uncached"}

NextSameKey ==
    \/ \E target \in SameKeyTarget \cup InjectTarget : InjectCall(target, MaxChain)
    \/ InjectResolveArg
    \/ InjectReturn

SpecSameKey == InitRegistry /\ [][NextSameKey]_vars

\* C37: resolving a parameter of an injected call destroys no object that
\* the DI layer owns for that call: an object allocated for a parameter of
\* the call (and handed to it) lives until the scope of the call ends.
C37_OwnedObjectOutlivesResolution ==
    diEvent.op = "resolve" =>
        \A x \in diEvent.destroyed : ~(x.live /\ x.depth = diEvent.depth)

(***************************************************************************)
(* Threads dispatching on different pipelines.  Dispatch locks chain_mtx_  *)
(* of its pipeline for its whole duration; the decorators and the original *)
(* function it calls may call other hooked functions.                      *)
(***************************************************************************)
\* a thread in user code (outside every Dispatch, or in a callback or the
\* original of its innermost Dispatch) calls the hooked function of
\* pipeline p: the detour reaches Dispatch and its lock_guard
CrossCall(t, p) ==
    /\ waitsFor[t] = Null
    /\ Len(dispatching[t]) < MaxNest
    /\ waitsFor' = [waitsFor EXCEPT ![t] = p]
    /\ UNCHANGED <<chainLock, dispatching>>
    /\ UNCHANGED <<hookVars, diVars, asyncVars, schedVars, leaseVars, failVars, nestVars,
                   pipelineVars, exitVars, resumeVars>>

\* chain_mtx_.lock() returns: the mutex was free or is held by the caller
CrossLock(t) ==
    /\ waitsFor[t] # Null
    /\ LET p == waitsFor[t]
       IN  /\ CanLock(chainLock[p].owner, t)
           /\ chainLock' = [chainLock EXCEPT ![p] = [owner |-> t, depth |-> @.depth + 1]]
           /\ dispatching' = [dispatching EXCEPT ![t] = Append(@, p)]
    /\ waitsFor' = [waitsFor EXCEPT ![t] = Null]
    /\ UNCHANGED <<hookVars, diVars, asyncVars, schedVars, leaseVars, failVars, nestVars,
                   pipelineVars, exitVars, resumeVars>>

\* the innermost Dispatch of the thread returns and its guard unlocks
CrossReturn(t) ==
    /\ waitsFor[t] = Null
    /\ dispatching[t] # <<>>
    /\ LET p == Last(dispatching[t])
       IN  chainLock' = [chainLock EXCEPT ![p] =
                            IF @.depth = 1 THEN [owner |-> 0, depth |-> 0]
                            ELSE [@ EXCEPT !.depth = @ - 1]]
    /\ dispatching' = [dispatching EXCEPT ![t] = SubSeq(@, 1, Len(@) - 1)]
    /\ UNCHANGED waitsFor
    /\ UNCHANGED <<hookVars, diVars, asyncVars, schedVars, leaseVars, failVars, nestVars,
                   pipelineVars, exitVars, resumeVars>>

NextCross ==
    \/ \E t \in Thread, p \in HookTarget : CrossCall(t, p)
    \/ \E t \in Thread : CrossLock(t)
    \/ \E t \in Thread : CrossReturn(t)

SpecCross == InitRegistry /\ [][NextCross]_vars

\* thread t waits for a chain lock that thread u holds
WaitsOn(t, u) ==
    /\ waitsFor[t] # Null
    /\ u # t
    /\ chainLock[waitsFor[t]].owner = u

\* the threads t waits for, directly or through up to n waiting threads
RECURSIVE WaitsOnChain(_, _)
WaitsOnChain(t, n) ==
    IF n = 0 THEN {}
    ELSE LET direct == {u \in Thread : WaitsOn(t, u)}
         IN  direct \cup UNION {WaitsOnChain(u, n - 1) : u \in direct}

\* C38: threads dispatching on different pipelines never deadlock: no set of
\* threads each hold a chain lock while waiting for a chain lock held by
\* another thread of the set.
C38_NoDeadlockAcrossPipelines ==
    \A t \in Thread : t \notin WaitsOnChain(t, NumThreads)


(***************************************************************************)
(* The queue and the suspensions it stands for (SpecSched).                *)
(***************************************************************************)
\* C39: every queue entry names a live coroutine, a suspended coroutine is
\* named by at most one entry (one per suspension, also after Schedule()
\* followed by Get() or by another Schedule()), and the handle a step of the
\* scheduler resumed was that of a live coroutine.
C39_QueueHoldsEachSuspensionOnce ==
    /\ \A i \in 1..Len(queue) : coro[queue[i].handle].status # "none"
    /\ \A c \in CoroId :
          coro[c].status = "suspended" => Cardinality(EntriesOf(c)) <= 1
    /\ schedEvent.op = "resume" => coro[schedEvent.handle].status # "none"


(***************************************************************************)
(* The resume specification: injected functions returning Task<T> are      *)
(* called on the thread's reusable InjectContextState, at top level while  *)
(* no lease references it and else from the body of a running Task of the  *)
(* state.  Each Task holds the lease of its call; the thread's code        *)
(* schedules Tasks that are not queued, and runs the scheduler.            *)
(***************************************************************************)
\* the Task whose body is running, if any
Running == {a \in LeaseAddr : bound[a].status = "running"}
\* the handles in the queue
Queued == {ready[i] : i \in 1..Len(ready)}

\* a call of an injected function returning Task<T>, from Dispatch to the
\* bound Task: InitCallFrame takes a lease on the state, the coroutine is
\* created suspended, AutoBindInjectContext moves the lease to the address b
\* of its handle, which the Task keeps.  At top level the reusable state is
\* taken when nothing references it, and reset first.
InjectedTaskCall(b) ==
    /\ leases[b].status = "none"
    /\ \/ Running # {}
       \/ \A a \in LeaseAddr : leases[a].status = "none"
    /\ LET stk == IF Running # {} THEN contextStack ELSE <<RootContext>>
           depth == IF Running # {} THEN injectCallDepth ELSE 0
       IN  /\ leases' = [leases EXCEPT ![b] = [status |-> "live", track |-> TRUE,
                                               parent |-> Last(stk)]]
           /\ contextStack' = Append(stk, b)
           /\ injectCallDepth' = depth + 1
    /\ acquired' = Append(acquired, b)
    /\ bound' = [bound EXCEPT ![b] = [status |-> "suspended", continuation |-> Null]]
    /\ resumeEvent' = [op |-> "call", task |-> b, current |-> Last(contextStack')]
    /\ UNCHANGED ready
    /\ UNCHANGED <<hookVars, diVars, asyncVars, schedVars, failVars, nestVars, pipelineVars, exitVars, crossVars>>

\* Task::Schedule of a suspended Task that no queue entry names and nothing
\* awaits
TaskSchedule(a) ==
    /\ bound[a].status = "suspended"
    /\ bound[a].continuation = Null
    /\ a \notin Queued
    /\ ready' = Append(ready, a)
    /\ resumeEvent' = NoResumeEvent
    /\ UNCHANGED bound
    /\ UNCHANGED <<hookVars, diVars, asyncVars, schedVars, leaseVars, failVars, nestVars, pipelineVars, exitVars, crossVars>>

\* the scheduler's RunOne, called by the thread's code: the oldest handle is
\* resumed with the state of its lease active, unless it is done
ResumeRunOne ==
    /\ Running = {}
    /\ ready # <<>>
    /\ LET a == Head(ready)
       IN  IF bound[a].status = "done"
           THEN /\ resumeEvent' = NoResumeEvent
                /\ UNCHANGED bound
           ELSE /\ bound' = [bound EXCEPT ![a].status = "running"]
                /\ resumeEvent' = [op |-> "resume", task |-> a,
                                   current |-> Last(contextStack)]
    /\ ready' = Tail(ready)
    /\ UNCHANGED <<hookVars, diVars, asyncVars, schedVars, leaseVars, failVars, nestVars, pipelineVars, exitVars, crossVars>>

\* the running body evaluates co_await on a suspended Task: await_suspend
\* records the continuation and enqueues the awaited handle
BodyAwait(p, a) ==
    /\ bound[p].status = "running"
    /\ bound[a].status = "suspended"
    /\ bound[a].continuation = Null
    /\ a \notin Queued
    /\ bound' = [bound EXCEPT ![p].status = "awaiting", ![a].continuation = p]
    /\ ready' = Append(ready, a)
    /\ resumeEvent' = NoResumeEvent
    /\ UNCHANGED <<hookVars, diVars, asyncVars, schedVars, leaseVars, failVars, nestVars, pipelineVars, exitVars, crossVars>>

\* the running body suspends at an awaitable of its own
BodySuspend(p) ==
    /\ bound[p].status = "running"
    /\ bound' = [bound EXCEPT ![p].status = "suspended"]
    /\ resumeEvent' = NoResumeEvent
    /\ UNCHANGED ready
    /\ UNCHANGED <<hookVars, diVars, asyncVars, schedVars, leaseVars, failVars, nestVars, pipelineVars, exitVars, crossVars>>

\* the running body returns: TaskFinalAwaiter resumes the continuation at
\* once, its state being the active one
BodyReturn(p) ==
    /\ bound[p].status = "running"
    /\ LET q == bound[p].continuation
       IN  IF q = Null
           THEN /\ bound' = [bound EXCEPT ![p].status = "done"]
                /\ resumeEvent' = NoResumeEvent
           ELSE /\ bound' = [bound EXCEPT ![p] = [status |-> "done",
                                                  continuation |-> Null],
                                          ![q].status = "running"]
                /\ resumeEvent' = [op |-> "resume", task |-> q,
                                   current |-> Last(contextStack)]
    /\ UNCHANGED ready
    /\ UNCHANGED <<hookVars, diVars, asyncVars, schedVars, leaseVars, failVars, nestVars, pipelineVars, exitVars, crossVars>>

\* ~Task of a Task that is not queued, awaited or awaiting: the coroutine
\* frame goes and with it the lease, whose frame leaves the context stack
BoundTaskDestroy(a) ==
    /\ bound[a].status \in {"suspended", "done"}
    /\ bound[a].continuation = Null
    /\ a \notin Queued
    /\ contextStack' =
          LET stk == EraseFrame(contextStack, a)
          IN  IF stk = <<>> THEN <<RootContext>> ELSE stk
    /\ injectCallDepth' = IF injectCallDepth > 0 THEN injectCallDepth - 1
                          ELSE injectCallDepth
    /\ acquired' = SelectSeq(acquired, LAMBDA c : c # a)
    /\ leases' = [leases EXCEPT ![a] = NoLease]
    /\ bound' = [bound EXCEPT ![a] = NoBound]
    /\ resumeEvent' = NoResumeEvent
    /\ UNCHANGED ready
    /\ UNCHANGED <<hookVars, diVars, asyncVars, schedVars, failVars, nestVars, pipelineVars, exitVars, crossVars>>

NextResume ==
    \/ \E b \in LeaseAddr : InjectedTaskCall(b)
    \/ \E a \in LeaseAddr : TaskSchedule(a)
    \/ ResumeRunOne
    \/ \E p, a \in LeaseAddr : BodyAwait(p, a)
    \/ \E p \in LeaseAddr : BodySuspend(p)
    \/ \E p \in LeaseAddr : BodyReturn(p)
    \/ \E a \in LeaseAddr : BoundTaskDestroy(a)

SpecResume == InitRegistry /\ [][NextResume]_vars

\* C40: whenever a Task bound to a lease is resumed, CurrentContext() of the
\* active state is the frame of that lease, whatever frames other Tasks'
\* calls pushed on the state while it was suspended.
C40_ResumedUnderOwnFrame ==
    resumeEvent.op = "resume" => resumeEvent.current = resumeEvent.task

====
